---- MODULE Spec2Model ----
(***************************************************************************)
(* Model of the Mini Agentic Pipeline: the tool-routing decision chain     *)
(* (src/src/reasoner.py), the retrieval fallback (src/src/retriever.py),   *)
(* the catalog lookup (src/src/actor_csv.py) and the per-query             *)
(* orchestration with its shared session context                           *)
(* (src/src/enhanced_main.py).                                             *)
(*                                                                         *)
(* Conventions.  Python strings are TLA+ strings, handled character by     *)
(* character with Len, SubSeq and \o.  A confidence is an integer number   *)
(* of tenths (0.9 is 9), and -1 stands for "the key is absent".  A         *)
(* missing string key is the string Absent.  Python's None is the record   *)
(* or string the place calls for, named at that place.                     *)
(***************************************************************************)
EXTENDS Integers, Sequences, FiniteSets, TLC

VARIABLES
    cfg,               \* module-level configuration of reasoner.py, vectorstore.py, actor_csv.py
    query_history,     \* shared_context["query_history"] (the queries, in order)
    tool_usage_count,  \* shared_context["tool_usage_count"]
    last_decision,     \* shared_context["last_decision"], NoDecision while the key is absent
    invocations,       \* ghost: the queries handle_query was invoked with, in order
    pc,                \* position of the running handle_query call
    query,             \* its argument
    kb_hits,           \* its local kb_hits
    decision,          \* its local decision
    llm_text,          \* the local `text` of decide: what _call_llm returned
    attempts,          \* ghost: the chain levels tried by the running decide / final_answer
    tool_result,       \* its local tool_result
    tool_meta,         \* its local tool_meta["attempts"]
    final,             \* its local final
    trace,             \* its local trace: the step names appended so far
    error,             \* the exception that escaped the call, NoError if none
    stats,             \* what get_session_stats returned last, NoStats once a call began
    retriever,         \* the Retriever: its top_k, its store's index, and what its calls did
    csv_actor,         \* the CSVActor under load: the parsed table and, once normalized, self.df
    durations,         \* time.perf_counter: the durations a timed step can take in this run
    total_latency,     \* shared_context["total_latency"]
    returned           \* ghost: the calls that returned, and the sum of latency_s over their traces

vars == << cfg, query_history, tool_usage_count, last_decision, invocations, pc, query,
           kb_hits, decision, llm_text, attempts, tool_result, tool_meta, final, trace, error,
           stats, retriever, csv_actor, durations, total_latency, returned >>

-----------------------------------------------------------------------------
(* Strings. *)

UpperLetters == "ABCDEFGHIJKLMNOPQRSTUVWXYZ"
LowerLetters == "abcdefghijklmnopqrstuvwxyz"
Digits == "0123456789"

Char(s, i) == SubSeq(s, i, i)

Min(a, b) == IF a < b THEN a ELSE b

\* s[a-1:b] of a string or a list, for a >= 1: what lies past the end is left out
Slice(s, a, b) == IF a > Min(b, Len(s)) THEN SubSeq(s, 1, 0) ELSE SubSeq(s, a, Min(b, Len(s)))

CharsOf(str) == { Char(str, i) : i \in 1..Len(str) }

LowerSet == CharsOf(LowerLetters)
UpperSet == CharsOf(UpperLetters)
DigitSet == CharsOf(Digits)

IsSpace(c) == c = " " \/ c = "\n" \/ c = "\t"
IsLowerAlnum(c) == c \in LowerSet \/ c \in DigitSet
IsLetter(c) == c \in LowerSet \/ c \in UpperSet
IsDigit(c) == c \in DigitSet
IsAlnum(c) == IsLetter(c) \/ IsDigit(c)
\* \w of Python's re on str
IsWordChar(c) == IsAlnum(c) \/ c = "_"

\* the lower-case letter of each upper-case letter, and the reverse
ToLower ==
    [c \in UpperSet |->
        Char(LowerLetters, CHOOSE i \in 1..Len(UpperLetters) : Char(UpperLetters, i) = c)]

ToUpper ==
    [c \in LowerSet |->
        Char(UpperLetters, CHOOSE i \in 1..Len(LowerLetters) : Char(LowerLetters, i) = c)]

LowerChar(c) == IF c \in UpperSet THEN ToLower[c] ELSE c

UpperChar(c) == IF c \in LowerSet THEN ToUpper[c] ELSE c

RECURSIVE LowerOf(_)
\* str.lower(), the string lowered half by half
LowerOf(s) ==
    IF Len(s) = 0 THEN ""
    ELSE IF Len(s) = 1 THEN LowerChar(s)
    ELSE LowerOf(SubSeq(s, 1, Len(s) \div 2)) \o LowerOf(SubSeq(s, Len(s) \div 2 + 1, Len(s)))

\* the corpus, in the order glob lists it
Docs ==
    << [id |-> "cloud.md",
        text |-> "Cloud pricing models: pay-as-you-go and reserved instances."],
       [id |-> "api.md",
        text |-> "API rate limiting patterns: token bucket and leaky bucket."] >>

\* the queries asked within a session
SessionQueries == { "What is cloud pricing?", "find sku PEN456." }

\* the queries a single decision or answer is tried on
Queries ==
    { "What is cloud pricing?", "What is the latest news about AI?",
      "latest price of coffee", "What is the price of coffee?", "Find SKU PEN456",
      "Show me available products", "What is machine learning?",
      "How to UPDATE my costume", "the api", "", "Newspaper costs", "price of cloud storage",
      "Tell me about RATE limiting" }

\* the queries a catalog lookup is tried on
LookupQueries ==
    { "find sku PEN456", "Find SKU PEN456.", "pen456", "PEN45", "sku: pen4567.",
      "SKU-cof001!", "skuPEN456", "find sku PEN456_", "(sku PEN456)",
      "show available products", "list items sku PEN456", "price of sku PEN456.x",
      "What is the price of coffee?", "price of pens", "Coffee", "pen", "tea", "", "?!" }

\* str.lower() of the strings lowered again and again, computed once
LowerTable ==
    [s \in SessionQueries \cup Queries \cup LookupQueries
            \cup { Docs[i].text : i \in 1..Len(Docs) } |-> LowerOf(s)]

Lower(s) == IF s \in DOMAIN LowerTable THEN LowerTable[s] ELSE LowerOf(s)

RECURSIVE Upper(_)
\* str.upper()
Upper(s) == IF Len(s) = 0 THEN "" ELSE UpperChar(Char(s, 1)) \o Upper(SubSeq(s, 2, Len(s)))

\* k in s
Contains(s, k) == \E i \in 1..(Len(s) - Len(k) + 1) : SubSeq(s, i, i + Len(k) - 1) = k

\* str.strip()
Strip(s) ==
    IF \A i \in 1..Len(s) : IsSpace(Char(s, i))
    THEN ""
    ELSE LET a == CHOOSE i \in 1..Len(s) :
                      ~IsSpace(Char(s, i)) /\ \A j \in 1..(i - 1) : IsSpace(Char(s, j))
             b == CHOOSE i \in 1..Len(s) :
                      ~IsSpace(Char(s, i)) /\ \A j \in (i + 1)..Len(s) : IsSpace(Char(s, j))
         IN  SubSeq(s, a, b)

RECURSIVE SplitFrom(_, _)
\* the words of s from position i on, str.split() with no argument
SplitFrom(s, i) ==
    IF i > Len(s) THEN << >>
    ELSE IF IsSpace(Char(s, i)) THEN SplitFrom(s, i + 1)
    ELSE LET e == CHOOSE j \in i..Len(s) :
                      /\ \A k \in i..j : ~IsSpace(Char(s, k))
                      /\ (j = Len(s) \/ IsSpace(Char(s, j + 1)))
         IN  << SubSeq(s, i, e) >> \o SplitFrom(s, e + 1)

Split(s) == SplitFrom(s, 1)

RECURSIVE Join(_, _)
\* sep.join(parts)
Join(sep, parts) ==
    IF Len(parts) = 0 THEN ""
    ELSE IF Len(parts) = 1 THEN parts[1]
    ELSE parts[1] \o sep \o Join(sep, Tail(parts))

Absent == "<absent>"

-----------------------------------------------------------------------------
(* JSON values, as json.loads returns them and dict.get reads them. *)

\* tool_args of a decision: a dict (kind "object"), null, or no such key
NoArgs == [kind |-> "absent", query |-> Absent, endpoint |-> Absent]
NullArgs == [kind |-> "null", query |-> Absent, endpoint |-> Absent]
EmptyArgs == [kind |-> "object", query |-> Absent, endpoint |-> Absent]
QueryArgs(q) == [kind |-> "object", query |-> q, endpoint |-> Absent]
EndpointArgs(e) == [kind |-> "object", query |-> Absent, endpoint |-> e]

\* a JSON value that is no object: a list, a number, a string, null
NonObject(k) ==
    [kind |-> k, decision |-> Absent, summary |-> Absent, confidence |-> -1,
     reason |-> Absent, tool_args |-> NoArgs]

\* a JSON object with the keys a decision may carry
Object(d, s, c, r, a) ==
    [kind |-> "object", decision |-> d, summary |-> s, confidence |-> c,
     reason |-> r, tool_args |-> a]

\* the value of shared_context.get("last_decision", {}) while the key is not set
NoDecision == Object(Absent, Absent, -1, Absent, NoArgs)

RECURSIVE IntStr(_)
\* str(n) of a natural number
IntStr(n) ==
    IF n < 10 THEN Char(Digits, n + 1) ELSE IntStr(n \div 10) \o Char(Digits, (n % 10) + 1)

-----------------------------------------------------------------------------
(* Reasoner._rule_based_decision *)

news_keywords ==
    << "news", "latest", "today", "headline", "headlines", "breaking", "update", "updates" >>

csv_keywords ==
    << "price", "cost", "buy", "purchase", "sku", "product", "item", "available", "stock" >>

\* any(k in query_lower for k in keywords)
AnyKeyword(query_lower, keywords) ==
    \E i \in 1..Len(keywords) : Contains(query_lower, keywords[i])

HitIsRelevantFromThree(hit, query_words) ==
    LET hit_text_lower == Lower(hit.text)
    IN  \E i \in 1..Len(query_words) :
            Len(query_words[i]) >= 3 /\ Contains(hit_text_lower, query_words[i])

\* any(word in hit_text_lower for word in query_words if len(word) > 3)
HitIsRelevant(hit, query_words) ==
    LET hit_text_lower == Lower(hit.text)
    IN  \E i \in 1..Len(query_words) :
            Len(query_words[i]) > 3 /\ Contains(hit_text_lower, query_words[i])

\* a relevance loop that keeps every hit
RelevantHitsAll(user_query, hits) == SelectSeq(hits, LAMBDA h : Len(user_query) >= 0)

\* the hits the relevance loop of the decision counts
RelevantHits(user_query, hits) ==
    LET query_words == Split(Lower(user_query))
    IN  SelectSeq(hits, LAMBDA h : HitIsRelevant(h, query_words))

RuleBasedDecisionCsvFirst(user_query, hits) ==
    LET query_lower == Lower(user_query)
    IN  IF AnyKeyword(query_lower, csv_keywords)
        THEN Object("TOOL_CSV", "Query appears to be about pricing/product information", 9,
                    "Query contains keywords suggesting product/pricing data needed",
                    QueryArgs(user_query))
        ELSE IF AnyKeyword(query_lower, news_keywords)
        THEN Object("TOOL_WEB", "Current-events/news query detected; using Web Search", 9,
                    "Query contains terms indicating current news or updates",
                    QueryArgs(user_query))
        ELSE Object("KB", "No relevant information found in knowledge base", 1,
                    "No documents found that match the query", EmptyArgs)

RuleBasedDecisionHitsFirst(user_query, hits) ==
    LET query_lower == Lower(user_query)
        relevant_hits == Len(RelevantHits(user_query, hits))
    IN  IF AnyKeyword(query_lower, news_keywords)
        THEN Object("TOOL_WEB", "Current-events/news query detected; using Web Search", 9,
                    "Query contains terms indicating current news or updates",
                    QueryArgs(user_query))
        ELSE IF relevant_hits > 0
        THEN Object("KB", "Query can be answered from knowledge base", 7,
                    "Query appears to be informational and relevant documents found in KB",
                    EmptyArgs)
        ELSE IF AnyKeyword(query_lower, csv_keywords)
        THEN Object("TOOL_CSV", "Query appears to be about pricing/product information", 9,
                    "Query contains keywords suggesting product/pricing data needed",
                    QueryArgs(user_query))
        ELSE Object("KB", "No relevant information found in knowledge base", 1,
                    "No documents found that match the query", EmptyArgs)

\* a rule that sends a query naming the api to the API tool
RuleBasedDecisionWithApi(user_query, hits) ==
    IF Contains(Lower(user_query), "api") \/ Len(hits) > 0
    THEN Object("TOOL_API", "Query appears to need live data", 8,
                "Query mentions an API", EndpointArgs("posts"))
    ELSE Object("KB", "No relevant information found in knowledge base", 1,
                "No documents found that match the query", EmptyArgs)

\* the dict _rule_based_decision serialises
RuleBasedDecision(user_query, hits) ==
    LET query_lower == Lower(user_query)
        needs_csv == AnyKeyword(query_lower, csv_keywords)
        relevant_hits == Len(RelevantHits(user_query, hits))
        confidence == IF needs_csv THEN 9
                      ELSE IF relevant_hits > 0 THEN 7
                      ELSE IF Len(hits) > 0 THEN 3
                      ELSE 1
    IN  IF AnyKeyword(query_lower, news_keywords)
        THEN Object("TOOL_WEB", "Current-events/news query detected; using Web Search", 9,
                    "Query contains terms indicating current news or updates",
                    QueryArgs(user_query))
        ELSE IF needs_csv
        THEN Object("TOOL_CSV", "Query appears to be about pricing/product information",
                    confidence,
                    "Query contains keywords suggesting product/pricing data needed",
                    QueryArgs(user_query))
        ELSE IF relevant_hits > 0
        THEN Object("KB",
                    "Query can be answered from knowledge base (" \o IntStr(relevant_hits)
                        \o " relevant hits found)",
                    confidence,
                    "Query appears to be informational and relevant documents found in KB",
                    EmptyArgs)
        ELSE IF Len(hits) > 0
        THEN Object("KB",
                    "Query may be answered from knowledge base (" \o IntStr(Len(hits))
                        \o " hits found, but relevance unclear)",
                    confidence,
                    "Query appears to be informational but KB content may not be relevant",
                    EmptyArgs)
        ELSE Object("KB", "No relevant information found in knowledge base", confidence,
                    "No documents found that match the query", EmptyArgs)

-----------------------------------------------------------------------------
(* What a generation backend may answer when asked for a decision. *)

TextApi ==
    "{\"decision\": \"TOOL_API\", \"confidence\": 0.8, \"reason\": \"live data\", \"tool_args\": {\"endpoint\": \"users/1\"}}"
TextCsvNullArgs ==
    "{\"decision\": \"TOOL_CSV\", \"confidence\": 0.9, \"reason\": \"catalog\", \"tool_args\": null}"
TextArray == "[\"TOOL_WEB\"]"
TextUnknownTool == "{\"decision\": \"ASK_USER\", \"reason\": \"unclear\"}"
TextProse == "I would answer this from the knowledge base."
TextWrapped ==
    "Sure: {\"decision\": \"TOOL_WEB\", \"confidence\": 0.7, \"reason\": \"fresh\", \"tool_args\": {\"query\": \"ai\"}}\n"
TextTwoBraces == "Answer {\"decision\": \"TOOL_CSV\", \"tool_args\": {}} or {see prices}"

ValueApi == Object("TOOL_API", Absent, 8, "live data", EndpointArgs("users/1"))
ValueCsvNullArgs == Object("TOOL_CSV", Absent, 9, "catalog", NullArgs)
ValueUnknownTool == Object("ASK_USER", Absent, -1, "unclear", NoArgs)
ValueWrapped == Object("TOOL_WEB", Absent, 7, "fresh", QueryArgs("ai"))
ValueCsvNoQuery == Object("TOOL_CSV", Absent, -1, Absent, EmptyArgs)

\* json.loads on the documents that occur here: each valid document with its value
JsonTable ==
    << [text |-> TextApi, value |-> ValueApi],
       [text |-> TextCsvNullArgs, value |-> ValueCsvNullArgs],
       [text |-> TextArray, value |-> NonObject("array")],
       [text |-> TextUnknownTool, value |-> ValueUnknownTool],
       [text |-> "{\"decision\": \"TOOL_WEB\", \"confidence\": 0.7, \"reason\": \"fresh\", \"tool_args\": {\"query\": \"ai\"}}",
        value |-> ValueWrapped],
       [text |-> "{\"decision\": \"TOOL_CSV\", \"tool_args\": {}}", value |-> ValueCsvNoQuery] >>

\* json.loads raised
JsonError == NonObject("JSONDecodeError")

\* json.loads(s): leading and trailing whitespace is skipped, anything else must be a document
JsonLoads(s) ==
    LET doc == Strip(s)
        found == { i \in 1..Len(JsonTable) : JsonTable[i].text = doc }
    IN  IF found = {} THEN JsonError ELSE JsonTable[CHOOSE i \in found : TRUE].value

\* what _call_llm returns: a backend's text, None, or json.dumps of the rule-based dict
RawText(s) == [kind |-> "str", s |-> s, obj |-> JsonError]
NoneText == [kind |-> "None", s |-> Absent, obj |-> JsonError]
JsonDumps(obj) == [kind |-> "dumps", s |-> Absent, obj |-> obj]

\* a backend call that raised (no token, transport failure, timeout, error payload)
BackendFails == [kind |-> "raise", s |-> Absent, obj |-> JsonError]

\* decide has not called _call_llm yet
NoText == [kind |-> "unset", s |-> Absent, obj |-> JsonError]

DecideTexts ==
    { RawText(TextApi), RawText(TextCsvNullArgs), RawText(TextArray), RawText(TextUnknownTool),
      RawText(TextProse), RawText(TextWrapped), RawText(TextTwoBraces) }

\* the outcomes of the one backend call a chain makes, given the texts the backend may
\* answer: _call_hf_api returns a string or raises; the OpenAI message content may also
\* be None; with no backend to call (no token, no client) nothing is chosen
BackendOutcomes(texts) ==
    IF cfg.USE_HF_MODEL
    THEN IF cfg.HUGGINGFACE_API_TOKEN THEN { BackendFails } \cup texts ELSE { BackendFails }
    ELSE IF cfg.client THEN { BackendFails, NoneText } \cup texts ELSE { BackendFails }

-----------------------------------------------------------------------------
(* Reasoner._call_llm and Reasoner.decide *)

CallLlmBothBackends(user_query, hits, out) ==
    IF out.kind = "raise"
    THEN [text |-> JsonDumps(RuleBasedDecision(user_query, hits)),
          attempts |-> << "hf", "openai", "rule" >>]
    ELSE [text |-> out, attempts |-> << "hf" >>]

\* _call_llm when the backend it calls, if it calls one, answers `out`: the text returned
\* and the levels tried (hf: _call_hf_api, openai: client.chat.completions.create,
\* rule: _rule_based_decision)
CallLlm(user_query, hits, out) ==
    IF cfg.USE_HF_MODEL
    THEN IF ~cfg.HUGGINGFACE_API_TOKEN \/ out.kind = "raise"
         THEN [text |-> JsonDumps(RuleBasedDecision(user_query, hits)),
               attempts |-> << "hf", "rule" >>]
         ELSE [text |-> RawText(Strip(out.s)), attempts |-> << "hf" >>]
    ELSE IF ~cfg.client
    THEN [text |-> JsonDumps(RuleBasedDecision(user_query, hits)), attempts |-> << "rule" >>]
    ELSE IF out.kind = "raise"
    THEN [text |-> JsonDumps(RuleBasedDecision(user_query, hits)),
          attempts |-> << "openai", "rule" >>]
    ELSE [text |-> out, attempts |-> << "openai" >>]

\* re.search(r"\{.*\}", text, re.S): from the first "{" to the last "}" after it
HasBraces(s) ==
    \E i \in 1..Len(s) : \E j \in (i + 1)..Len(s) : Char(s, i) = "{" /\ Char(s, j) = "}"

BraceGroup(s) ==
    LET a == CHOOSE i \in 1..Len(s) :
                 Char(s, i) = "{" /\ \A k \in 1..(i - 1) : Char(s, k) # "{"
        b == CHOOSE j \in 1..Len(s) :
                 Char(s, j) = "}" /\ \A k \in (j + 1)..Len(s) : Char(s, k) # "}"
    IN  SubSeq(s, a, b)

ParseFailureDecisionRuleLike ==
    Object("KB", "No relevant information found in knowledge base", 1,
           "No documents found that match the query", EmptyArgs)

\* the dict decide returns when nothing parses
ParseFailureDecision ==
    Object("KB", Absent, -1, "Could not parse LLM output; default to KB", EmptyArgs)

\* decide, after _call_llm returned `text`: the value returned, or raised (text is None:
\* text.strip() raises inside the try, re.search(..., None) raises inside the handler)
DecideParse(text) ==
    IF text.kind = "dumps" THEN [raised |-> FALSE, value |-> text.obj]
    ELSE IF text.kind = "None" THEN [raised |-> TRUE, value |-> JsonError]
    ELSE LET whole == JsonLoads(text.s)
             group == IF HasBraces(text.s) THEN JsonLoads(BraceGroup(text.s)) ELSE JsonError
         IN  IF whole # JsonError THEN [raised |-> FALSE, value |-> whole]
             ELSE IF group # JsonError THEN [raised |-> FALSE, value |-> group]
             ELSE [raised |-> FALSE, value |-> ParseFailureDecision]

-----------------------------------------------------------------------------
(* Regular expressions of enhanced_main.py and actor_csv.py, on strings. *)

\* [a-z0-9\s\-]
IsCleanChar(c) == IsLowerAlnum(c) \/ IsSpace(c) \/ c = "-"
\* [A-Za-z0-9\s\-:]
IsLookupChar(c) == IsAlnum(c) \/ IsSpace(c) \/ c = "-" \/ c = ":"
RECURSIVE FilterClean(_)
\* re.sub(r"[^a-z0-9\s\-]", "", s)
FilterClean(s) ==
    IF Len(s) = 0 THEN ""
    ELSE (IF IsCleanChar(Char(s, 1)) THEN Char(s, 1) ELSE "")
         \o FilterClean(SubSeq(s, 2, Len(s)))

RECURSIVE FilterLookup(_)
\* re.sub(r"[^A-Za-z0-9\s\-:]", "", s)
FilterLookup(s) ==
    IF Len(s) = 0 THEN ""
    ELSE (IF IsLookupChar(Char(s, 1)) THEN Char(s, 1) ELSE "")
         \o FilterLookup(SubSeq(s, 2, Len(s)))

\* [-\s:]
IsSepChar(c) == c = "-" \/ IsSpace(c) \/ c = ":"
\* [A-Za-z0-9\-]
IsTokenChar(c) == IsAlnum(c) \/ c = "-"

\* \b before position p of s (p = Len(s) + 1: at the end)
IsWordAt(s, p) == p >= 1 /\ p <= Len(s) /\ IsWordChar(Char(s, p))
Boundary(s, p) == IsWordAt(s, p - 1) # IsWordAt(s, p)

\* membership in a named character class of the patterns
InClass(c, class) ==
    CASE class = "sep" -> IsSepChar(c)
      [] class = "token" -> IsTokenChar(c)
      [] class = "space" -> IsSpace(c)
      [] class = "clean" -> IsCleanChar(c)

\* the end of the run of characters of the class that starts at position i (i - 1 if empty)
RunEnd(s, i, class) ==
    CHOOSE e \in (i - 1)..Len(s) :
        /\ \A k \in i..e : InClass(Char(s, k), class)
        /\ (e = Len(s) \/ ~InClass(Char(s, e + 1), class))

\* the (separator length, token length) pairs with which
\* \bsku[-\s:]*([A-Za-z0-9\-]+)\b, letter case ignored, matches s from position i
SkuSplits(s, i) ==
    IF ~(i + 2 <= Len(s) /\ Lower(SubSeq(s, i, i + 2)) = "sku" /\ Boundary(s, i))
    THEN {}
    ELSE UNION { { << a, b >> : b \in { x \in 1..(RunEnd(s, i + 3 + a, "token") - (i + 2 + a)) :
                                          Boundary(s, i + 3 + a + x) } } :
                 a \in 0..(RunEnd(s, i + 3, "sep") - (i + 2)) }

\* the least element of a nonempty set of numbers
Least(S) == CHOOSE x \in S : \A y \in S : x <= y

\* of the ways to match from one position, the one the regex engine takes: the separator
\* as long as it can be, then the token as long as it can be
GreedySplit(splits) ==
    CHOOSE p \in splits : \A r \in splits : r[1] < p[1] \/ (r[1] = p[1] /\ r[2] <= p[2])

\* group 1 of the match that starts at position i and splits as p
SkuGroup(s, i, p) == SubSeq(s, i + 3 + p[1], i + 2 + p[1] + p[2])

\* group 1 of the leftmost match, given the positions where the pattern matches
SkuTokenFrom(s, starts) ==
    IF starts = {} THEN Absent
    ELSE SkuGroup(s, Least(starts), GreedySplit(SkuSplits(s, Least(starts))))

\* group 1 of re.search of that pattern in s, Absent if there is no match
SkuMarkerToken(s) == SkuTokenFrom(s, { i \in 1..Len(s) : SkuSplits(s, i) # {} })

\* re.fullmatch(r"[A-Za-z]{2,}\d{2,}(-[A-Za-z0-9]+)?", q)
IsBareSku(q) ==
    \E l \in 2..Len(q) : \E d \in 2..Len(q) :
        /\ l + d <= Len(q)
        /\ \A k \in 1..l : IsLetter(Char(q, k))
        /\ \A k \in (l + 1)..(l + d) : IsDigit(Char(q, k))
        /\ \/ l + d = Len(q)
           \/ /\ l + d + 2 <= Len(q)
              /\ Char(q, l + d + 1) = "-"
              /\ \A k \in (l + d + 2)..Len(q) : IsAlnum(Char(q, k))

\* w stands at position i of s as a whole word
WordAt(s, i, w) ==
    /\ Slice(s, i, i + Len(w) - 1) = w
    /\ Boundary(s, i)
    /\ Boundary(s, i + Len(w))

\* re.search(r"\b(show|list|available)\b.*\b(products?|items?)\b", s)
IsListIntent(s) ==
    \E i \in 1..Len(s) : \E w \in {"show", "list", "available"} :
        /\ WordAt(s, i, w)
        /\ \E j \in (i + Len(w))..Len(s) : \E v \in {"product", "products", "item", "items"} :
               /\ WordAt(s, j, v)
               /\ \A k \in (i + Len(w))..(j - 1) : Char(s, k) # "\n"

\* group 1 of re.search(r"price of\s+([a-z0-9\-\s]+)", s) when "price of" stands at i
\* and its blanks end at w: \s+ gives back its last blank when nothing else can follow
PriceOfTerm(s, i, w) ==
    IF w < i + 8 THEN Absent
    ELSE IF w < Len(s) /\ IsCleanChar(Char(s, w + 1))
    THEN SubSeq(s, w + 1, RunEnd(s, w + 1, "clean"))
    ELSE IF w > i + 8 THEN Char(s, w)
    ELSE Absent

\* group 1 of a match from position i, Absent if the pattern does not match there
PriceOfAt(s, i) ==
    IF Slice(s, i, i + 7) # "price of" THEN Absent
    ELSE PriceOfTerm(s, i, RunEnd(s, i + 8, "space"))

\* group 1 of the leftmost match, given the positions where the pattern matches
PriceOfFrom(s, starts) == IF starts = {} THEN Absent ELSE PriceOfAt(s, Least(starts))

\* group 1 of re.search of that pattern in s, Absent if there is no match
PriceOfGroup(s) == PriceOfFrom(s, { i \in 1..Len(s) : PriceOfAt(s, i) # Absent })

-----------------------------------------------------------------------------
(* AgenticPipeline._extract_sku, _extract_product and the candidate list *)

\* group(1).upper() of a match, None (Absent) without one
UpperToken(tok) == IF tok = Absent THEN Absent ELSE Upper(tok)

\* _extract_sku
ExtractSku(q) == UpperToken(SkuMarkerToken(Lower(q)))

\* the term _extract_product cleans: the group of the match, else the lower-cased query
ProductTerm(ql, g) == IF g = Absent THEN ql ELSE g

\* _extract_product, applied to q.lower()
ExtractProductLower(ql) == Strip(FilterClean(ProductTerm(ql, PriceOfGroup(ql))))

\* _extract_product
ExtractProduct(q) == ExtractProductLower(Lower(q))

Cleaned(q) == Strip(FilterClean(Lower(q)))

\* a candidate list whose product term is not compared with the earlier candidates
CandidateListNoDedupe(q, cleaned, sku, prod) ==
    << [label |-> "raw", query |-> q] >>
    \o (IF cleaned # "" /\ cleaned # q
        THEN << [label |-> "cleaned", query |-> cleaned] >> ELSE << >>)
    \o (IF sku # Absent /\ sku # ""
        THEN << [label |-> "sku", query |-> sku] >> ELSE << >>)
    \o (IF prod # ""
        THEN << [label |-> "product", query |-> prod] >> ELSE << >>)

\* a candidate list that starts with the cleaned query instead of the raw one
CandidateListCleanedFirst(q, cleaned, sku, prod) ==
    << [label |-> "raw", query |-> cleaned] >>
    \o (IF sku # Absent /\ sku # ""
        THEN << [label |-> "sku", query |-> sku] >> ELSE << >>)
    \o (IF prod # "" /\ prod \notin {q, cleaned, sku}
        THEN << [label |-> "product", query |-> prod] >> ELSE << >>)

\* the list `candidates` built from the query and the three strings derived from it
CandidateList(q, cleaned, sku, prod) ==
    << [label |-> "raw", query |-> q] >>
    \o (IF cleaned # "" /\ cleaned # q
        THEN << [label |-> "cleaned", query |-> cleaned] >> ELSE << >>)
    \o (IF sku # Absent /\ sku # ""
        THEN << [label |-> "sku", query |-> sku] >> ELSE << >>)
    \o (IF prod # "" /\ prod \notin {q, cleaned, sku}
        THEN << [label |-> "product", query |-> prod] >> ELSE << >>)

\* the list `candidates` of _csv_lookup_with_retries
Candidates(q) == CandidateList(q, Cleaned(q), ExtractSku(q), ExtractProduct(q))

-----------------------------------------------------------------------------
(* CSVActor: the normalized table and lookup *)

\* str(cell).strip().lower() of a column that exists; a column that does not exist has
\* no lower-cased copy
Shadow(cell) == IF cell = Absent THEN Absent ELSE Lower(Strip(cell))

\* a row of a normalized table: its cells by column (Absent: the table has no such
\* column) and the lower-cased search columns _normalize_df adds
Row(sku, name, category, price, currency, stock, description, label, amount) ==
    [sku |-> sku, name |-> name, category |-> category, price |-> price,
     currency |-> currency, stock |-> stock, description |-> description,
     label |-> label, amount |-> amount,
     _sku_lc |-> Shadow(sku), _name_lc |-> Shadow(name), _desc_lc |-> Shadow(description)]

\* a row of a table with the seven canonical columns
TableRow(sku, name, category, price, currency, stock, description) ==
    Row(sku, name, category, price, currency, stock, description, Absent, Absent)

\* a row of a table whose header names no canonical column and that gets no sku or name
\* column from the heuristics
PlainRow(label, amount) ==
    Row(Absent, Absent, Absent, Absent, Absent, Absent, Absent, label, amount)

\* the table of a catalog that loaded (self.df); cells are shown as str() shows them
Catalog ==
    << TableRow("PEN456", "Pen", "stationery", "1.5", "USD", "120", "Blue ballpoint pen"),
       TableRow("COF001", "Coffee", "grocery", "12.99", "USD", "40", "Arabica coffee beans"),
       TableRow("PEN4567", "Pen set", "stationery", "6.0", "USD", "15", "Five pens, sku set") >>

\* the table of a file with the header "label,amount"
PlainTable == << PlainRow("Pen", "1.5"), PlainRow("Coffee", "12.99") >>

\* a CSVActor whose table is given by cfg.df (nothing is being loaded)
IdleCsvActor == [status |-> "idle", columns |-> << >>, rows |-> << >>]

\* _normalize_df on a table read_csv parsed (two columns or more): `columns` its header,
\* `rows` its rows of cells, each cell as str() shows it

HasColumn(columns, n) == \E i \in 1..Len(columns) : columns[i] = n
ColumnOf(columns, n) == Least({ i \in 1..Len(columns) : columns[i] = n })
HasDuplicates(columns) ==
    \E i \in 1..Len(columns) : \E j \in 1..Len(columns) : i # j /\ columns[i] = columns[j]

\* df.columns = [c.strip().lower() for c in df.columns]
CleanNames(columns) == [i \in 1..Len(columns) |-> Lower(Strip(columns[i]))]

\* rename_map: id / sku_id become sku, product / item / title become name
RenameProbable(columns) ==
    [i \in 1..Len(columns) |->
        IF columns[i] \in { "id", "sku_id" } THEN "sku"
        ELSE IF columns[i] \in { "product", "item", "title" } THEN "name"
        ELSE columns[i]]

\* ^[A-Za-z]{2,}\d{2,}$ matches the cell
LooksLikeSku(cell) ==
    \E l \in 2..Len(cell) :
        /\ Len(cell) - l >= 2
        /\ \A k \in 1..l : IsLetter(Char(cell, k))
        /\ \A k \in (l + 1)..Len(cell) : IsDigit(Char(cell, k))

\* more than 0.3 of the cells of column i look like a sku
MostlySkus(rows, i) ==
    Cardinality({ r \in 1..Len(rows) : LooksLikeSku(rows[r][i]) }) * 10 > 3 * Len(rows)

\* with no sku column, the first column whose cells mostly look like skus is renamed sku
RenameByContent(columns, rows) ==
    IF HasColumn(columns, "sku") \/ ~\E i \in 1..Len(columns) : MostlySkus(rows, i)
    THEN columns
    ELSE [columns EXCEPT ![Least({ i \in 1..Len(columns) : MostlySkus(rows, i) })] = "sku"]

\* with no name column, a column col1 is renamed name
RenameCol1(columns) ==
    IF ~HasColumn(columns, "name") /\ HasColumn(columns, "col1")
    THEN [columns EXCEPT ![ColumnOf(columns, "col1")] = "name"]
    ELSE columns

\* the header after the renamings, the lower-cased copies not yet added
NormalizeColumns(columns, rows) ==
    RenameCol1(RenameByContent(RenameProbable(CleanNames(columns)), rows))

\* the lower-cased copies _normalize_df adds, in its order: (copy, column copied)
ShadowPairs ==
    << << "_sku_lc", "sku" >>, << "_name_lc", "name" >>, << "_desc_lc", "description" >> >>

ShadowsOf(columns) == SelectSeq(ShadowPairs, LAMBDA p : HasColumn(columns, p[2]))

\* a copy that keeps the letter case
ShadowCellKeepCase(cell) == Strip(cell)

\* str(cell).strip().lower()
ShadowCell(cell) == Lower(Strip(cell))

\* a row after normalization: its cells trimmed, then the lower-cased copies
NormalizeRow(columns, cells) ==
    [i \in 1..Len(cells) |-> Strip(cells[i])]
        \o [k \in 1..Len(ShadowsOf(columns)) |->
               ShadowCell(Strip(cells[ColumnOf(columns, ShadowsOf(columns)[k][2])]))]

\* _normalize_df as _load_df calls it. With two columns of one name df[c] is a
\* DataFrame, which has neither .dtype nor .str: the content heuristic or the trimming
\* loop raises AttributeError and _load_df catches it: the table read_csv parsed is
\* dropped (self.df is None here; the manual split _load_df tries last is not modelled).
NormalizeDf(columns, rows) ==
    IF HasDuplicates(RenameProbable(CleanNames(columns)))
    THEN [status |-> "raised", columns |-> RenameProbable(CleanNames(columns)), rows |-> << >>]
    ELSE [status |-> "normalized",
          columns |-> NormalizeColumns(columns, rows)
                          \o [k \in 1..Len(ShadowsOf(NormalizeColumns(columns, rows))) |->
                                 ShadowsOf(NormalizeColumns(columns, rows))[k][1]],
          rows |-> [r \in 1..Len(rows) |->
                       NormalizeRow(NormalizeColumns(columns, rows), rows[r])]]

RowFields ==
    { "sku", "name", "category", "price", "currency", "stock", "description", "label",
      "amount", "_sku_lc", "_name_lc", "_desc_lc" }

\* a row of the normalized table by column name, for lookup (a column outside RowFields
\* is not shown)
DfRow(columns, cells) ==
    [f \in RowFields |-> IF HasColumn(columns, f) THEN cells[ColumnOf(columns, f)] ELSE Absent]

\* self.df is None
DfIsNone == csv_actor.status # "normalized" /\ cfg.df = "none"

\* self.df of the CSVActor; the empty sequence stands for None (the load failed)
Df ==
    IF csv_actor.status = "normalized"
    THEN [r \in 1..Len(csv_actor.rows) |-> DfRow(csv_actor.columns, csv_actor.rows[r])]
    ELSE CASE cfg.df = "catalog" -> Catalog
           [] cfg.df = "plain" -> PlainTable
           [] OTHER -> << >>

\* an element of a tool result: a catalog row as a dict, a web result, an API object
Item(sku, name, category, price, currency, stock, description, title, snippet, content) ==
    [sku |-> sku, name |-> name, category |-> category, price |-> price,
     currency |-> currency, stock |-> stock, description |-> description,
     label |-> Absent, amount |-> Absent,
     _sku_lc |-> Absent, _name_lc |-> Absent, _desc_lc |-> Absent,
     title |-> title, snippet |-> snippet, content |-> content]

\* the columns of the table a row belongs to
Columns(row) == { c \in DOMAIN row : row[c] # Absent }

CanonicalCols == { "sku", "name", "category", "price", "currency", "stock", "description" }

\* display_cols: the canonical columns the table has; if it has none, every column whose
\* name does not start with an underscore
DisplayCols(columns) ==
    IF columns \cap CanonicalCols # {} THEN columns \cap CanonicalCols
    ELSE { c \in columns : Char(c, 1) # "_" }

\* the keys a dict made from a table row or received from a tool may have
DictKeys ==
    CanonicalCols \cup { "label", "amount", "_sku_lc", "_name_lc", "_desc_lc",
                         "title", "snippet", "content" }

\* rows[cols].to_dict(orient="records") for one row: a key outside cols is absent
Project(row, cols) ==
    [k \in DictKeys |-> IF k \in cols /\ k \in DOMAIN row THEN row[k] ELSE Absent]

\* a projection that keeps every column of the table, the search columns included
RowsToDictsAllColumns(rows) ==
    IF rows = << >> THEN << >>
    ELSE [i \in 1..Len(rows) |-> Project(rows[i], Columns(rows[1]))]

\* _rows_to_dicts: the display columns only
RowsToDicts(rows) ==
    IF rows = << >> THEN << >>
    ELSE [i \in 1..Len(rows) |-> Project(rows[i], DisplayCols(Columns(rows[1])))]

\* a token rule that knows the marker pattern only, not the bare shape
SkuTokenMarkerOnly(q, tok) == IF tok # Absent THEN Upper(tok) ELSE Absent

\* _is_sku_token on the stripped q, tok the group of the marker pattern; None is Absent
SkuTokenOrBare(q, tok) ==
    IF tok # Absent THEN Upper(tok)
    ELSE IF IsBareSku(q) THEN Upper(q)
    ELSE Absent

IsSkuTokenStripped(q) == SkuTokenOrBare(q, SkuMarkerToken(q))

\* _is_sku_token
IsSkuToken(q0) == IsSkuTokenStripped(Strip(q0))

\* str.contains(q_lc, na=False) on a search column, if the table has it
ColumnContains(cell, q_lc) == cell # Absent /\ Contains(cell, q_lc)

\* a lookup that tries the sku token before the list intent
LookupRowsSkuFirst(q_lc, sku_tok) ==
    IF sku_tok # Absent /\ sku_tok # "" /\ Df[1].sku # Absent
    THEN RowsToDicts(SelectSeq(Df, LAMBDA r : r._sku_lc = Lower(sku_tok)))
    ELSE IF IsListIntent(q_lc) THEN RowsToDicts(Df)
    ELSE RowsToDicts(SelectSeq(Df, LAMBDA r :
             \/ ColumnContains(r._sku_lc, q_lc)
             \/ ColumnContains(r._name_lc, q_lc)
             \/ ColumnContains(r._desc_lc, q_lc)))

\* a lookup that matches the sku token as a substring of the sku column
LookupRowsSubstring(q_lc, sku_tok) ==
    IF IsListIntent(q_lc) THEN RowsToDicts(Df)
    ELSE IF sku_tok # Absent /\ sku_tok # "" /\ Df[1].sku # Absent
    THEN RowsToDicts(SelectSeq(Df, LAMBDA r : Contains(r._sku_lc, Lower(sku_tok))))
    ELSE RowsToDicts(SelectSeq(Df, LAMBDA r :
             \/ ColumnContains(r._sku_lc, q_lc)
             \/ ColumnContains(r._name_lc, q_lc)
             \/ ColumnContains(r._desc_lc, q_lc)))

\* lookup on a loaded table once q_lc and sku_tok are known: every row, the rows of that
\* sku if there is a sku column, or the rows one of whose search columns contains q_lc
LookupRows(q_lc, sku_tok) ==
    IF IsListIntent(q_lc) THEN RowsToDicts(Df)
    ELSE IF sku_tok # Absent /\ sku_tok # "" /\ Df[1].sku # Absent
    THEN RowsToDicts(SelectSeq(Df, LAMBDA r : r._sku_lc = Lower(sku_tok)))
    ELSE RowsToDicts(SelectSeq(Df, LAMBDA r :
             \/ ColumnContains(r._sku_lc, q_lc)
             \/ ColumnContains(r._name_lc, q_lc)
             \/ ColumnContains(r._desc_lc, q_lc)))

\* a lookup that never takes a sku token out of the query
LookupCleanNoToken(q_clean) == LookupRows(Lower(q_clean), Absent)

\* lookup on a loaded table, q_clean being the sanitized query
LookupClean(q_clean) == LookupRows(Lower(q_clean), IsSkuToken(q_clean))

\* lookup: the rows returned
Lookup(q0) ==
    IF DfIsNone THEN << >> ELSE LookupClean(Strip(FilterLookup(Strip(q0))))

\* the entry of the attempts log for one candidate, `elapsed` the time its lookup took
AttemptEntry(cand, res, elapsed) ==
    [attempt |-> cand.label, query |-> cand.query, latency_s |-> elapsed, rows |-> Len(res)]

\* the candidates the driver can have at most (raw, cleaned, sku, product)
MaxCandidates == 4

RECURSIVE LookupLoop(_, _, _, _, _)
RECURSIVE LookupNext(_, _, _, _, _, _)
LookupNextToEnd(cands, i, log, total, lat, res) ==
    IF Len(res) > 0 /\ i = Len(cands)
    THEN [res |-> res, total_latency |-> total + lat[i],
          attempts |-> Append(log, AttemptEntry(cands[i], res, lat[i]))]
    ELSE LookupLoop(cands, i + 1, Append(log, AttemptEntry(cands[i], res, lat[i])),
                    total + lat[i], lat)

\* a round that leaves the time of the yielding lookup out of the total
LookupNextHitUntimed(cands, i, log, total, lat, res) ==
    IF Len(res) > 0
    THEN [res |-> res, total_latency |-> total,
          attempts |-> Append(log, AttemptEntry(cands[i], res, lat[i]))]
    ELSE LookupLoop(cands, i + 1, Append(log, AttemptEntry(cands[i], res, lat[i])),
                    total + lat[i], lat)

\* one round of the loop: candidate i gave res after lat[i]
LookupNext(cands, i, log, total, lat, res) ==
    IF Len(res) > 0
    THEN [res |-> res, total_latency |-> total + lat[i],
          attempts |-> Append(log, AttemptEntry(cands[i], res, lat[i]))]
    ELSE LookupLoop(cands, i + 1, Append(log, AttemptEntry(cands[i], res, lat[i])),
                    total + lat[i], lat)

\* the loop of _csv_lookup_with_retries from candidate i on: `log` the attempts so far,
\* `total` their accumulated time, lat[k] the time the lookup of candidate k takes
LookupLoop(cands, i, log, total, lat) ==
    IF i > Len(cands) THEN [res |-> << >>, total_latency |-> total, attempts |-> log]
    ELSE LookupNext(cands, i, log, total, lat, Lookup(cands[i].query))

\* _csv_lookup_with_retries: the result, the total latency and the attempts log
CsvLookupWithRetries(q, lat) == LookupLoop(Candidates(q), 1, << >>, 0, lat)

-----------------------------------------------------------------------------
(* Tool results *)

\* tool_result: None, a list, or a dict (a dict here is never empty)
NoResult == [kind |-> "None", items |-> << >>, error |-> FALSE]
ListResult(items) == [kind |-> "list", items |-> items, error |-> FALSE]
DictResult(item) == [kind |-> "dict", items |-> << item >>, error |-> FALSE]
ErrorResult == [kind |-> "dict", items |-> << >>, error |-> TRUE]

\* bool(tool_result)
Truthy(r) == (r.kind = "list" /\ Len(r.items) > 0) \/ r.kind = "dict"

WebItem(title, snippet) ==
    Item(Absent, Absent, Absent, Absent, Absent, Absent, Absent, title, snippet, Absent)

\* WebSearchActor.search: the simulated result, or what the search API gave (possibly nothing)
WebOutcomes(q) ==
    { ListResult(<< WebItem("Search result for: " \o q,
                            "This is a simulated search result for '" \o q
                                \o "'. In a real implementation, this would fetch actual web results.") >>),
      ListResult(<< >>),
      ListResult(<< WebItem("AI weekly", " New models released "), WebItem("", "") >>) }

\* APIActor.call_api: what response.json() gives for the body (a JSON object, a JSON list
\* of objects, or None for the body `null`), or the error payload
ApiOutcomes ==
    { NoResult,
      DictResult(Item(Absent, "Leanne", Absent, Absent, Absent, Absent, Absent, Absent, Absent,
                      Absent)),
      ListResult(<< Item(Absent, Absent, Absent, Absent, Absent, Absent, Absent, "post one",
                         Absent, Absent) >>),
      ErrorResult }

-----------------------------------------------------------------------------
(* Reasoner._rule_based_final_answer and Reasoner.final_answer *)

\* x or y, for strings where a missing key reads as None
Or(x, y) == IF x = Absent \/ x = "" THEN y ELSE x

\* row.get(key, default)
Get(x, default) == IF x = Absent THEN default ELSE x

NotFoundAnswer ==
    "No matching product found in catalog (CSV); cannot determine price from knowledge base examples."

WithTrace(answer_lines, trace_parts) ==
    Join("\n", answer_lines) \o "\n\nTrace:\n" \o Join("\n", trace_parts)

\* a line that reads the snippet key alone
WebLineSnippetOnly(item) ==
    IF Or(item.snippet, "") # ""
    THEN Strip(Or(item.title, "Result")) \o ": " \o Strip(item.snippet)
    ELSE Strip(Or(item.title, "Result"))

\* the line of one web result
WebLine(item) ==
    LET title == Strip(Or(item.title, "Result"))
        snippet == Strip(Or(item.snippet, Or(item.content, Or(item.description, ""))))
    IN  IF snippet # "" THEN title \o ": " \o snippet ELSE title

ListLine(row) ==
    LET name == Get(row.name, "Unknown")
        sku == Or(row.sku, "")
        price == Get(row.price, "N/A")
        currency == Get(row.currency, "")
        stock == Get(row.stock, "")
    IN  Join(" ", (IF name # "" THEN << name >> ELSE << >>)
                  \o (IF sku # "" THEN << "(SKU " \o sku \o ")" >> ELSE << >>)
                  \o (IF price # "" /\ currency # ""
                      THEN << "- " \o price \o " " \o currency >> ELSE << >>)
                  \o (IF stock # "" THEN << "- stock " \o stock >> ELSE << >>))

\* an intent test that takes every query for a request to list
ComposerListIntentAlways(query_lower) == Len(query_lower) >= 0

\* the list-all intent test of the composer
ComposerListIntent(query_lower) ==
    /\ \E w \in {"show", "list", "available"} : Contains(query_lower, w)
    /\ \E w \in {"products", "product", "items", "item"} : Contains(query_lower, w)

\* a relevance loop of the composer that takes words of 3 characters too
ComposerRelevantHitsFromThree(user_query, hits) ==
    LET query_words == Split(Lower(user_query))
    IN  SelectSeq(hits, LAMBDA h : HitIsRelevantFromThree(h, query_words))

\* the hits the relevance loop of the composer collects
ComposerRelevantHits(user_query, hits) ==
    LET query_words == Split(Lower(user_query))
    IN  SelectSeq(hits, LAMBDA h : HitIsRelevant(h, query_words))

\* _rule_based_final_answer, `last` being shared_context.get("last_decision", {})
RuleBasedFinalAnswer(user_query, hits, result, last) ==
    LET query_lower == Lower(user_query)
        chose_csv == last.decision = "TOOL_CSV"
        relevant_hits == ComposerRelevantHits(user_query, hits)
    IN  IF last.decision = "TOOL_WEB" /\ result.kind = "list" /\ Len(result.items) > 0
        THEN WithTrace([i \in 1..Len(Slice(result.items, 1, 5)) |-> WebLine(result.items[i])],
                       << "1. Selected Web Search", "2. Retrieved web results",
                          "3. Returned summarized headlines" >>)
        ELSE IF chose_csv /\ (~Truthy(result) \/ (result.kind = "list" /\ Len(result.items) = 0))
        THEN WithTrace(<< NotFoundAnswer >>,
                       << "1. Selected CSV for pricing", "2. CSV lookup returned no rows",
                          "3. Enforced CSV as authoritative source for prices",
                          "4. Responded with not-found" >>)
        ELSE IF Truthy(result) /\ result.kind = "list" /\ Len(result.items) > 0
        THEN IF ComposerListIntent(query_lower)
             THEN WithTrace([i \in 1..Len(result.items) |-> ListLine(result.items[i])],
                            << "1. Selected CSV for catalog listing",
                               "2. Retrieved product rows from CSV",
                               "3. Returned authoritative catalog list from CSV" >>)
             ELSE LET first == result.items[1]
                      sku == Or(first.sku, "")
                  IN  WithTrace(<< Strip(Get(first.name, "Unknown") \o ": "
                                         \o Get(first.price, "N/A") \o " "
                                         \o Get(first.currency, "")) >>
                                \o (IF sku # "" THEN << "SKU: " \o sku >> ELSE << >>),
                                << "1. Selected CSV for pricing",
                                   "2. Retrieved product row from CSV",
                                   "3. Returned authoritative price from CSV" >>)
        ELSE IF Len(relevant_hits) > 0
        THEN WithTrace(<< "Based on the knowledge base:" >>
                       \o [i \in 1..Len(Slice(relevant_hits, 1, 2)) |->
                              "- " \o Slice(relevant_hits[i].text, 1, 200) \o "..."],
                       << "1. Searched knowledge base and found " \o IntStr(Len(hits))
                              \o " documents",
                          "2. Identified " \o IntStr(Len(relevant_hits)) \o " relevant documents",
                          "3. Compiled information to provide this answer" >>)
        ELSE IF Len(hits) > 0
        THEN WithTrace(<< "Found knowledge base documents, but none appear directly relevant to the query." >>,
                       << "1. Searched knowledge base and found " \o IntStr(Len(hits))
                              \o " documents",
                          "2. No relevant documents found for this query",
                          "3. Provided a neutral response" >>)
        ELSE WithTrace(<< "No relevant information found to answer the query." >>,
                       << "1. No KB hits and no tool results; responded neutrally" >>)

\* what a generation backend may answer when asked for the final answer: it is shown the
\* query, the hits and the tool result, and is free to quote any of them
FinalTexts(hits) ==
    { RawText("That product is not in the catalog.\n\nTrace:\n1. Checked the catalog") }
    \cup (IF Len(hits) > 0
          THEN { RawText("From the knowledge base: " \o Slice(hits[1].text, 1, 200)) }
          ELSE {})

\* final_answer when the backend it calls, if it calls one, answers `out`: the value
\* returned (Absent is None) and the levels tried
FinalAnswer(user_query, hits, result, last, out) ==
    IF cfg.USE_HF_MODEL
    THEN IF ~cfg.HUGGINGFACE_API_TOKEN \/ out.kind = "raise"
         THEN [final |-> RuleBasedFinalAnswer(user_query, hits, result, last),
               attempts |-> << "hf", "rule" >>]
         ELSE [final |-> Strip(out.s), attempts |-> << "hf" >>]
    ELSE IF ~cfg.client
    THEN [final |-> RuleBasedFinalAnswer(user_query, hits, result, last),
          attempts |-> << "rule" >>]
    ELSE IF out.kind = "raise"
    THEN [final |-> RuleBasedFinalAnswer(user_query, hits, result, last),
          attempts |-> << "openai", "rule" >>]
    ELSE [final |-> out.s, attempts |-> << "openai" >>]

-----------------------------------------------------------------------------
(* Retriever.retrieve *)

\* top_k of the Retriever (TOP_K, default 3)
top_k == 3

\* keyword_search
KeywordSearch(q) ==
    LET found == SelectSeq(Docs, LAMBDA d : Contains(Lower(d.text), Lower(q)))
    IN  Slice(found, 1, top_k)

\* the rankings the vector search may give: the nearest top_k documents in either order
VectorRankings == { Docs, << Docs[2], Docs[1] >> }

\* retrieve: the vector hits if that path works and finds any, else the keyword hits
RetrieveOutcomes(q) == VectorRankings \cup { KeywordSearch(q) }

\* the Retriever as the pipeline creates it: top_k hits, no index yet, nothing called
IdleRetriever == [top_k |-> top_k, index |-> "none", builds |-> 0, failed |-> "none"]

\* the inner products the index search may report, in hundredths
ScoreValues == { -10, 35, 80 }

\* what VectorStore.search may find in an index over the corpus: the k nearest
\* documents, or as many as there are, the largest inner product first
SearchRankings(k) ==
    { r \in [1..Min(k, Len(Docs)) -> [doc : 1..Len(Docs), score : ScoreValues]] :
        \A i, j \in DOMAIN r : i < j => r[i].doc # r[j].doc /\ r[i].score >= r[j].score }

\* what the search of one retrieve call does: _embed raises, or the index is searched;
\* an index read from disk ("loaded") may hold no vector at all ("empty")
SearchOutcomes(k) ==
    { [kind |-> "raise", ranking |-> << >>], [kind |-> "hits", ranking |-> << >>] }
    \cup { [kind |-> "hits", ranking |-> r] : r \in SearchRankings(k) }

\* a hit of the search as retrieve returns it, sim being minus the score
VectorHit(e) ==
    [id |-> Docs[e.doc].id, text |-> Docs[e.doc].text, score |-> e.score, sim |-> 0 - e.score]

\* a keyword search that returns every match
KeywordHitsAll(q, k) ==
    [i \in 1..Len(KeywordSearch(q)) |->
        [id |-> KeywordSearch(q)[i].id, text |-> KeywordSearch(q)[i].text, sim |-> 100]]

\* keyword_search of a Retriever with top_k = k: the matches with sim 1.0 (100 hundredths)
KeywordHits(q, k) ==
    Slice([i \in 1..Len(KeywordSearch(q)) |->
              [id |-> KeywordSearch(q)[i].id, text |-> KeywordSearch(q)[i].text, sim |-> 100]],
          1, k)

\* a test that finds the index missing whatever the store holds
IndexMissingAlways(r) == r.top_k > 0

\* self.vs.index is None
IndexMissing(r) == r.index = "none"

\* retrieve(q) of the Retriever r when index_docs, if it runs, ends as `build` says (ok,
\* _embed raises, or the index is set and writing it raises) and the search as `search`
\* says: the hits returned and the Retriever afterwards
Retrieve(r, q, build, search) ==
    LET failed == IF IndexMissing(r) /\ build = "embed_fails" THEN "build_embed"
                  ELSE IF IndexMissing(r) /\ build = "write_fails" THEN "build_write"
                  ELSE IF search.kind = "raise" THEN "search_embed"
                  ELSE "none"
    IN  [hits |-> IF failed = "none" /\ search.ranking # << >>
                  THEN [i \in 1..Len(search.ranking) |-> VectorHit(search.ranking[i])]
                  ELSE KeywordHits(q, r.top_k),
         retriever |-> [top_k |-> r.top_k,
                        index |-> IF IndexMissing(r) /\ build # "embed_fails" THEN "built"
                                  ELSE r.index,
                        builds |-> IF IndexMissing(r) THEN r.builds + 1 ELSE r.builds,
                        failed |-> failed]]

-----------------------------------------------------------------------------
(* AgenticPipeline: handle_query step by step, get_session_stats *)

\* queries asked in a session (bound of the model)
MaxQueries == 2

NoError == "none"
\* no call has returned yet
NoneReturned == [calls |-> 0, latency_s |-> 0]
NoStats == [total_queries |-> -1, tool_usage |-> [csv |-> -1, web |-> -1, api |-> -1]]

Cfgs ==
    { c \in [USE_HF_MODEL : BOOLEAN, HUGGINGFACE_API_TOKEN : BOOLEAN, client : BOOLEAN,
             df : {"none", "catalog", "plain"}] :
        \* the OpenAI client is only created when USE_HF_MODEL is off; the token only
        \* matters when it is on
        /\ c.USE_HF_MODEL => ~c.client
        /\ ~c.USE_HF_MODEL => ~c.HUGGINGFACE_API_TOKEN }

Init ==
    /\ cfg \in Cfgs
    /\ query_history = << >>
    /\ tool_usage_count = [csv |-> 0, web |-> 0, api |-> 0]
    /\ last_decision = NoDecision
    /\ invocations = << >>
    /\ pc = "idle"
    /\ query = ""
    /\ kb_hits = << >>
    /\ decision = NoDecision
    /\ llm_text = NoText
    /\ attempts = << >>
    /\ tool_result = NoResult
    /\ tool_meta = << >>
    /\ final = Absent
    /\ trace = << >>
    /\ error = NoError
    /\ stats = NoStats
    /\ retriever = IdleRetriever
    /\ csv_actor = IdleCsvActor
    /\ durations = { 0 }
    /\ total_latency = 0
    /\ returned = NoneReturned

\* make_trace_entry: the step name and, for a tool_call, details["tool"]
TraceEntry(step, tool, latency_s) == [step |-> step, tool |-> tool, latency_s |-> latency_s]

\* the sum of latency_s over the entries of a trace
RECURSIVE TraceLatency(_)
TraceLatency(t) ==
    IF t = << >> THEN 0 ELSE t[1].latency_s + TraceLatency(Tail(t))


HistoryAppendDistinct(history, q) ==
    IF \E i \in 1..Len(history) : history[i] = q THEN history ELSE Append(history, q)

\* shared_context["query_history"].append({"query": query, ...})
HistoryAppend(history, q) == Append(history, q)

\* handle_query is called: the history entry, then retrieval and its trace entry
HandleQueryBegin(q) ==
    /\ pc \in {"idle", "done", "raised"}
    /\ Len(invocations) < MaxQueries
    /\ invocations' = Append(invocations, q)
    /\ query_history' = HistoryAppend(query_history, q)
    /\ query' = q
    /\ \E hits \in RetrieveOutcomes(q) : kb_hits' = hits
    /\ \E d \in durations :
          /\ total_latency' = total_latency + d
          /\ trace' = << TraceEntry("retrieval", Absent, d) >>
    /\ decision' = NoDecision
    /\ llm_text' = NoText
    /\ attempts' = << >>
    /\ tool_result' = NoResult
    /\ tool_meta' = << >>
    /\ final' = Absent
    /\ error' = NoError
    /\ stats' = NoStats
    /\ pc' = "decide"
    /\ UNCHANGED << cfg, retriever, csv_actor, durations, returned, tool_usage_count,
                    last_decision >>

\* step 2: reasoner.decide and its trace entry
Decide ==
    /\ pc = "decide"
    /\ \E out \in BackendOutcomes(DecideTexts) :
          LET called == CallLlm(query, kb_hits, out)
              got == DecideParse(called.text)
          IN  /\ attempts' = called.attempts
              /\ llm_text' = called.text
              /\ IF got.raised
                 THEN /\ pc' = "raised"
                      /\ error' = "TypeError"
                      /\ UNCHANGED << decision, trace, total_latency >>
                 ELSE /\ pc' = "tool"
                      /\ decision' = got.value
                      /\ \E d \in durations :
                            /\ total_latency' = total_latency + d
                            /\ trace' = Append(trace, TraceEntry("reasoner_decision", Absent, d))
                      /\ UNCHANGED error
    /\ UNCHANGED << cfg, retriever, csv_actor, durations, returned, query_history,
                    tool_usage_count, last_decision, invocations, query, kb_hits,
                    tool_result, tool_meta, final, stats >>


\* a step that adds nothing to the session total for the tool
ToolLatencyDropped(tool_latency) == 0

\* (tool_latency or 0.0): what the tool step adds to the session total
ToolLatencyAdded(tool_latency) == tool_latency

\* decision.get("tool_args", {}).get("query", query)
ToolQuery(d, q) == Get(d.tool_args.query, q)

\* step 3 raises AttributeError: decision is no dict (decision.get), or it names a tool
\* and its tool_args is null (None.get); nothing of the step has been done yet
ToolCallRaises ==
    /\ pc = "tool"
    /\ \/ decision.kind # "object"
       \/ /\ decision.decision \in {"TOOL_CSV", "TOOL_WEB", "TOOL_API"}
          /\ decision.tool_args.kind = "null"
    /\ pc' = "raised"
    /\ error' = "AttributeError"
    /\ UNCHANGED << cfg, retriever, csv_actor, durations, total_latency, returned,
                    query_history, tool_usage_count, last_decision, invocations, query,
                    kb_hits, decision, llm_text, attempts, tool_result, tool_meta, final,
                    trace, stats >>

\* step 3, decision TOOL_CSV: the lookup with retries, then the csv counter
ToolCallCsv ==
    /\ pc = "tool"
    /\ decision.kind = "object"
    /\ decision.decision = "TOOL_CSV"
    /\ decision.tool_args.kind # "null"
    /\ \E lat \in [1..MaxCandidates -> durations] :
          \E r \in { CsvLookupWithRetries(ToolQuery(decision, query), lat) } :
              /\ tool_result' = ListResult(r.res)
              /\ tool_meta' = r.attempts
              /\ total_latency' = total_latency + ToolLatencyAdded(r.total_latency)
              /\ trace' = Append(trace, TraceEntry("tool_call", decision.decision,
                                                   r.total_latency))
    /\ tool_usage_count' = [tool_usage_count EXCEPT !.csv = @ + 1]
    /\ pc' = "final"
    /\ UNCHANGED << cfg, retriever, csv_actor, durations, returned, query_history,
                    last_decision, invocations, query, kb_hits, decision, llm_text,
                    attempts, final, error, stats >>

\* step 3, decision TOOL_WEB: the search, then the web counter
ToolCallWeb ==
    /\ pc = "tool"
    /\ decision.kind = "object"
    /\ decision.decision = "TOOL_WEB"
    /\ decision.tool_args.kind # "null"
    /\ \E r \in WebOutcomes(ToolQuery(decision, query)) : tool_result' = r
    /\ tool_usage_count' = [tool_usage_count EXCEPT !.web = @ + 1]
    /\ \E d \in durations :
          /\ total_latency' = total_latency + ToolLatencyAdded(d)
          /\ trace' = Append(trace, TraceEntry("tool_call", decision.decision, d))
    /\ pc' = "final"
    /\ UNCHANGED << cfg, retriever, csv_actor, durations, returned, query_history,
                    last_decision, invocations, query, kb_hits, decision, llm_text,
                    attempts, tool_meta, final, error, stats >>

\* step 3, decision TOOL_API: the call, then the api counter; the tool_call entry is
\* traced if tool_result is not None
ToolCallApi ==
    /\ pc = "tool"
    /\ decision.kind = "object"
    /\ decision.decision = "TOOL_API"
    /\ decision.tool_args.kind # "null"
    /\ \E r \in ApiOutcomes :
          /\ tool_result' = r
          /\ IF r # NoResult
             THEN \E d \in durations :
                      /\ total_latency' = total_latency + ToolLatencyAdded(d)
                      /\ trace' = Append(trace, TraceEntry("tool_call", decision.decision, d))
             ELSE UNCHANGED << total_latency, trace >>
    /\ tool_usage_count' = [tool_usage_count EXCEPT !.api = @ + 1]
    /\ pc' = "final"
    /\ UNCHANGED << cfg, retriever, csv_actor, durations, returned, query_history,
                    last_decision, invocations, query, kb_hits, decision, llm_text,
                    attempts, tool_meta, final, error, stats >>

\* step 3, any other decision (KB, an unknown name, no name): no tool, tool_result stays
\* None and no tool_call entry is traced
ToolCallNone ==
    /\ pc = "tool"
    /\ decision.kind = "object"
    /\ decision.decision \notin {"TOOL_CSV", "TOOL_WEB", "TOOL_API"}
    /\ pc' = "final"
    /\ UNCHANGED << cfg, retriever, csv_actor, durations, total_latency, returned,
                    query_history, tool_usage_count, last_decision, invocations, query,
                    kb_hits, decision, llm_text, attempts, tool_result, tool_meta, final,
                    trace, error, stats >>

\* a context that still holds the decision of the call before when final_answer reads it
ContextDecisionStale(previous, current) == previous

\* shared_context["last_decision"] when final_answer reads it: the decision of this call,
\* stored just before
ContextDecision(previous, current) == current

\* step 4: last_decision is recorded, final_answer runs, its trace entry; the call returns
FinalAnswerStep ==
    /\ pc = "final"
    /\ last_decision' = ContextDecision(last_decision, decision)
    /\ \E out \in BackendOutcomes(FinalTexts(kb_hits)) :
          LET r == FinalAnswer(query, kb_hits, tool_result, last_decision', out)
          IN  /\ final' = r.final
              /\ attempts' = r.attempts
    /\ \E d \in durations :
          /\ total_latency' = total_latency + d
          /\ trace' = Append(trace, TraceEntry("final_answer", Absent, d))
    /\ returned' = [calls |-> returned.calls + 1,
                    latency_s |-> returned.latency_s + TraceLatency(trace')]
    /\ pc' = "done"
    /\ UNCHANGED << cfg, retriever, csv_actor, durations, query_history, tool_usage_count,
                    invocations, query, kb_hits, decision, llm_text, tool_result, tool_meta,
                    error, stats >>

\* get_session_stats, between two handle_query calls
GetSessionStats ==
    /\ pc \in {"idle", "done", "raised"}
    /\ stats' = [total_queries |-> Len(query_history), tool_usage |-> tool_usage_count]
    /\ UNCHANGED << cfg, retriever, csv_actor, durations, total_latency, returned,
                    query_history, tool_usage_count, last_decision, invocations, pc, query,
                    kb_hits, decision, llm_text, attempts, tool_result, tool_meta, final,
                    trace, error >>

Next ==
    \/ \E q \in SessionQueries : HandleQueryBegin(q)
    \/ Decide
    \/ ToolCallRaises
    \/ ToolCallCsv
    \/ ToolCallWeb
    \/ ToolCallApi
    \/ ToolCallNone
    \/ FinalAnswerStep
    \/ GetSessionStats

Spec == Init /\ [][Next]_vars

-----------------------------------------------------------------------------
(* The decision chain on its own: decide applied to one query and one hit list. *)

HitLists == { << >>, << Docs[1] >>, << Docs[2] >>, Docs, << Docs[2], Docs[1] >> }

InitDecide ==
    /\ cfg \in Cfgs
    /\ query \in Queries
    /\ kb_hits \in HitLists
    /\ query_history = << query >>
    /\ invocations = << query >>
    /\ tool_usage_count = [csv |-> 0, web |-> 0, api |-> 0]
    /\ last_decision = NoDecision
    /\ pc = "decide"
    /\ decision = NoDecision
    /\ llm_text = NoText
    /\ attempts = << >>
    /\ tool_result = NoResult
    /\ tool_meta = << >>
    /\ final = Absent
    /\ trace = << TraceEntry("retrieval", Absent, 0) >>
    /\ error = NoError
    /\ stats = NoStats
    /\ retriever = IdleRetriever
    /\ csv_actor = IdleCsvActor
    /\ durations = { 0 }
    /\ total_latency = 0
    /\ returned = NoneReturned

NextDecide == Decide

SpecDecide == InitDecide /\ [][NextDecide]_vars

\* the same, followed by the answer when the decision names no tool
NextDecideAndAnswer == Decide \/ ToolCallNone \/ FinalAnswerStep

SpecDecideAndAnswer == InitDecide /\ [][NextDecideAndAnswer]_vars

-----------------------------------------------------------------------------
(* The catalog on its own: CSVActor.lookup applied to one query. *)

InitLookup ==
    /\ cfg \in Cfgs
    /\ query \in LookupQueries
    /\ kb_hits = << >>
    /\ query_history = << >>
    /\ invocations = << >>
    /\ tool_usage_count = [csv |-> 0, web |-> 0, api |-> 0]
    /\ last_decision = NoDecision
    /\ pc = "lookup"
    /\ decision = NoDecision
    /\ llm_text = NoText
    /\ attempts = << >>
    /\ tool_result = NoResult
    /\ tool_meta = << >>
    /\ final = Absent
    /\ trace = << >>
    /\ error = NoError
    /\ stats = NoStats
    /\ retriever = IdleRetriever
    /\ csv_actor = IdleCsvActor
    /\ durations = { 0 }
    /\ total_latency = 0
    /\ returned = NoneReturned

\* csv_actor.lookup(query) returns its rows
CsvActorLookup ==
    /\ pc = "lookup"
    /\ tool_result' = ListResult(Lookup(query))
    /\ pc' = "looked"
    /\ UNCHANGED << cfg, retriever, csv_actor, durations, total_latency, returned,
                    query_history, tool_usage_count, last_decision, invocations, query,
                    kb_hits, decision, llm_text, attempts, tool_meta, final, trace, error,
                    stats >>

NextLookup == CsvActorLookup

SpecLookup == InitLookup /\ [][NextLookup]_vars

-----------------------------------------------------------------------------
(* The catalog path of handle_query: the tool step and the answer for a query that
   decide answered with TOOL_CSV. *)

InitCsv ==
    /\ cfg \in Cfgs
    /\ query \in LookupQueries
    /\ kb_hits \in { << >>, Docs }
    /\ query_history = << query >>
    /\ invocations = << query >>
    /\ tool_usage_count = [csv |-> 0, web |-> 0, api |-> 0]
    /\ last_decision = NoDecision
    /\ pc = "tool"
    /\ decision = Object("TOOL_CSV", Absent, 9, "catalog", QueryArgs(query))
    /\ llm_text = NoText
    /\ attempts = << >>
    /\ tool_result = NoResult
    /\ tool_meta = << >>
    /\ final = Absent
    /\ trace = << TraceEntry("retrieval", Absent, 0),
                 TraceEntry("reasoner_decision", Absent, 0) >>
    /\ error = NoError
    /\ stats = NoStats
    /\ retriever = IdleRetriever
    /\ csv_actor = IdleCsvActor
    /\ durations \in { { 0 }, { 1, 2 } }
    /\ total_latency = 0
    /\ returned = NoneReturned

NextCsv == ToolCallCsv \/ FinalAnswerStep

SpecCsv == InitCsv /\ [][NextCsv]_vars

-----------------------------------------------------------------------------
(* Reasoner.final_answer on its own: the last step of handle_query for the queries, hit
   lists, decisions and tool results a composer may be handed. *)

\* a document longer than the 200 characters the composer quotes of a hit
LongDoc ==
    [id |-> "storage.md",
     text |-> "Cloud storage tiers: hot storage serves data that is read often, cool storage "
              \o "serves data that is read once a month or less, and archive storage keeps "
              \o "data that is hardly ever read; moving data between the tiers is billed per "
              \o "gigabyte moved."]

\* the hit lists a composer is tried on: up to top_k hits, relevant or not
ComposeHits ==
    HitLists
    \cup { << LongDoc, Docs[1], [id |-> "regions.md", text |-> "Cloud regions and zones."] >> }

\* a result of n web results whose snippet comes under the keys snippet, content or
\* description, or is missing, and whose title may be missing
WebResults ==
    << WebItem("AI weekly", " New models released "),
       Item(Absent, Absent, Absent, Absent, Absent, Absent, Absent, "Chips", Absent, "New GPU"),
       Item(Absent, Absent, Absent, Absent, Absent, Absent, "Funding round", "Labs", "", Absent),
       WebItem("Title only", Absent),
       WebItem(Absent, "No title"),
       WebItem("Sixth", "Beyond the cut") >>

\* the tool results a composer is tried on
ComposeResults ==
    { NoResult, ListResult(<< >>), ErrorResult,
      DictResult(Item(Absent, "Leanne", Absent, Absent, Absent, Absent, Absent, Absent, Absent,
                      Absent)),
      ListResult(RowsToDicts(Catalog)),
      ListResult(<< Item(Absent, "Mug", Absent, "4.0", "EUR", Absent, Absent, Absent, Absent,
                         Absent),
                    Item("COF001", "Coffee", Absent, "12.99", "USD", Absent, Absent, Absent,
                         Absent, Absent) >>),
      ListResult(SubSeq(WebResults, 1, 2)),
      ListResult(WebResults) }

InitCompose ==
    /\ cfg \in { c \in Cfgs : c.df = "catalog" }
    /\ query \in { "What is cloud pricing?", "What is the latest news about AI?",
                   "Show me available products", "Find SKU PEN456", "tea" }
    /\ kb_hits \in ComposeHits
    /\ tool_result \in ComposeResults
    /\ \E d \in { "KB", "TOOL_CSV", "TOOL_WEB", "TOOL_API" } :
          decision = Object(d, Absent, 9, "chosen", QueryArgs(query))
    /\ query_history = << query >>
    /\ invocations = << query >>
    /\ tool_usage_count = [csv |-> 0, web |-> 0, api |-> 0]
    /\ last_decision = NoDecision
    /\ pc = "final"
    /\ llm_text = NoText
    /\ attempts = << >>
    /\ tool_meta = << >>
    /\ final = Absent
    /\ trace = << TraceEntry("retrieval", Absent, 0),
                 TraceEntry("reasoner_decision", Absent, 0) >>
    /\ error = NoError
    /\ stats = NoStats
    /\ retriever = IdleRetriever
    /\ csv_actor = IdleCsvActor
    /\ durations = { 0 }
    /\ total_latency = 0
    /\ returned = NoneReturned

NextCompose == FinalAnswerStep

SpecCompose == InitCompose /\ [][NextCompose]_vars

-----------------------------------------------------------------------------
(* The session with a clock: the same calls, each timed step taking 1 or 2 ticks. *)

InitLatency ==
    /\ cfg \in { c \in Cfgs : c.df = "catalog" /\ ~c.USE_HF_MODEL }
    /\ durations = { 1, 2 }
    /\ query_history = << >>
    /\ tool_usage_count = [csv |-> 0, web |-> 0, api |-> 0]
    /\ last_decision = NoDecision
    /\ invocations = << >>
    /\ pc = "idle"
    /\ query = ""
    /\ kb_hits = << >>
    /\ decision = NoDecision
    /\ llm_text = NoText
    /\ attempts = << >>
    /\ tool_result = NoResult
    /\ tool_meta = << >>
    /\ final = Absent
    /\ trace = << >>
    /\ error = NoError
    /\ stats = NoStats
    /\ retriever = IdleRetriever
    /\ csv_actor = IdleCsvActor
    /\ total_latency = 0
    /\ returned = NoneReturned

SpecLatency == InitLatency /\ [][Next]_vars

-----------------------------------------------------------------------------
(* CSVActor on its own: a parsed table is normalized, then looked up any number of
   times. *)

\* header names as read_csv gives them (no two the same)
RawNames == { "id", "sku_id", "SKU", "product", "title", " Name", "description", "label", "col1" }

\* the cells of a column whose values look like skus, and of a column of free text
SkuCells == << "PEN456", " Cof001 " >>
TextCells == << " Blue Pen", "Coffee  " >>

\* the parsed tables: two or three columns; the first holds SkuCells or TextCells, the
\* others TextCells
RawTables ==
    { [columns |-> h, rows |-> [r \in 1..2 |-> [i \in 1..Len(h) |->
                                    IF i = 1 THEN first[r] ELSE TextCells[r]]]] :
        h \in { t \in [1..2 -> RawNames] \cup [1..3 -> RawNames] : ~HasDuplicates(t) },
        first \in { SkuCells, TextCells } }

NormalizeQueries == { "pen456", "pen", "show all products" }

InitNormalize ==
    /\ cfg \in { c \in Cfgs : c.df = "none" /\ ~c.USE_HF_MODEL /\ ~c.client }
    /\ \E t \in RawTables : csv_actor = [status |-> "parsed", columns |-> t.columns, rows |-> t.rows]
    /\ query \in NormalizeQueries
    /\ kb_hits = << >>
    /\ query_history = << >>
    /\ invocations = << >>
    /\ tool_usage_count = [csv |-> 0, web |-> 0, api |-> 0]
    /\ last_decision = NoDecision
    /\ pc = "load"
    /\ decision = NoDecision
    /\ llm_text = NoText
    /\ attempts = << >>
    /\ tool_result = NoResult
    /\ tool_meta = << >>
    /\ final = Absent
    /\ trace = << >>
    /\ error = NoError
    /\ stats = NoStats
    /\ retriever = IdleRetriever
    /\ durations = { 0 }
    /\ total_latency = 0
    /\ returned = NoneReturned

\* _load_df once read_csv has parsed the file: self.df = self._normalize_df(df), or the
\* exception is caught and self.df stays None
CsvActorLoad ==
    /\ pc = "load"
    /\ csv_actor' = NormalizeDf(csv_actor.columns, csv_actor.rows)
    /\ pc' = "lookup"
    /\ UNCHANGED << cfg, retriever, durations, total_latency, returned, query_history,
                    tool_usage_count, last_decision, invocations, query, kb_hits, decision,
                    llm_text, attempts, tool_result, tool_meta, final, trace, error,
                    stats >>

\* the caller has the next query for the same actor
CsvActorNextQuery(q) ==
    /\ pc = "looked"
    /\ query' = q
    /\ pc' = "lookup"
    /\ UNCHANGED << cfg, retriever, csv_actor, durations, total_latency, returned,
                    query_history, tool_usage_count, last_decision, invocations, kb_hits,
                    decision, llm_text, attempts, tool_result, tool_meta, final, trace,
                    error, stats >>

NextNormalize ==
    \/ CsvActorLoad
    \/ CsvActorLookup
    \/ \E q \in NormalizeQueries : CsvActorNextQuery(q)

SpecNormalize == InitNormalize /\ [][NextNormalize]_vars

-----------------------------------------------------------------------------
(* Retriever.retrieve on its own: a sequence of calls on one Retriever. *)

\* the calls made on one Retriever (bound of the model)
MaxRetrieves == 2

InitRetrieve ==
    /\ cfg \in { c \in Cfgs : c.df = "catalog" /\ ~c.USE_HF_MODEL /\ ~c.client }
    /\ \E k \in 1..top_k : \E idx \in { "none", "loaded", "empty" } :
          retriever = [top_k |-> k, index |-> idx, builds |-> 0, failed |-> "none"]
    /\ csv_actor = IdleCsvActor
    /\ durations = { 0 }
    /\ total_latency = 0
    /\ returned = NoneReturned
    /\ query_history = << >>
    /\ tool_usage_count = [csv |-> 0, web |-> 0, api |-> 0]
    /\ last_decision = NoDecision
    /\ invocations = << >>
    /\ pc = "retrieve"
    /\ query = ""
    /\ kb_hits = << >>
    /\ decision = NoDecision
    /\ llm_text = NoText
    /\ attempts = << >>
    /\ tool_result = NoResult
    /\ tool_meta = << >>
    /\ final = Absent
    /\ trace = << >>
    /\ error = NoError
    /\ stats = NoStats

\* one call of retrieve
RetrieverRetrieve(q) ==
    /\ pc = "retrieve"
    /\ Len(invocations) < MaxRetrieves
    /\ invocations' = Append(invocations, q)
    /\ query' = q
    /\ \E build \in { "ok", "embed_fails", "write_fails" } :
          \E search \in SearchOutcomes(retriever.top_k) :
              \E r \in { Retrieve(retriever, q, build, search) } :
                  /\ search.kind = "hits"
                        => (search.ranking = << >> <=> retriever.index = "empty")
                  /\ kb_hits' = r.hits
                  /\ retriever' = r.retriever
    /\ UNCHANGED << cfg, csv_actor, durations, total_latency, returned, query_history,
                    tool_usage_count, last_decision, pc, decision, llm_text, attempts,
                    tool_result, tool_meta, final, trace, error, stats >>

NextRetrieve == \E q \in { "cloud", "BUCKET", "and", "tea", "" } : RetrieverRetrieve(q)

SpecRetrieve == InitRetrieve /\ [][NextRetrieve]_vars

-----------------------------------------------------------------------------
(* Properties of the decision chain. *)

\* decide returned and the rule-based decision was the level that produced its value
RuleBasedDecided ==
    pc = "tool" /\ attempts # << >> /\ attempts[Len(attempts)] = "rule"

HasCurrentEventsKeyword(q) ==
    \E k \in { "news", "latest", "today", "headline", "headlines", "breaking", "update",
               "updates" } : Contains(Lower(q), k)

HasCatalogKeyword(q) ==
    \E k \in { "price", "cost", "buy", "purchase", "sku", "product", "item", "available",
               "stock" } : Contains(Lower(q), k)

\* some query word longer than 3 characters occurs, case-insensitively, in the hit text
SomeLongWordOccurs(q, hit) ==
    LET words == Split(Lower(q))
    IN  \E i \in 1..Len(words) : Len(words[i]) > 3 /\ Contains(Lower(hit.text), words[i])

\* C1: a query whose lower-cased text contains a current-events keyword gets the
\* rule-based decision TOOL_WEB with confidence 0.9, for every hit list and also when
\* the query contains catalog keywords.
C1_NewsKeywordRoutesToWeb ==
    (RuleBasedDecided /\ HasCurrentEventsKeyword(query))
        => (decision.decision = "TOOL_WEB" /\ decision.confidence = 9)

\* the rule-based decision ran on a query with both kinds of keyword and with hits
C1_Witness ==
    /\ RuleBasedDecided
    /\ HasCurrentEventsKeyword(query)
    /\ HasCatalogKeyword(query)
    /\ kb_hits # << >>
    /\ decision.decision = "TOOL_WEB"

\* C7: a query with no current-events keyword and at least one catalog keyword gets the
\* rule-based decision TOOL_CSV with confidence 0.9 and tool_args.query equal to the
\* query, whatever the hits are.
C7_CatalogKeywordRoutesToCsv ==
    (RuleBasedDecided /\ ~HasCurrentEventsKeyword(query) /\ HasCatalogKeyword(query))
        => /\ decision.decision = "TOOL_CSV"
           /\ decision.confidence = 9
           /\ decision.tool_args = QueryArgs(query)

\* the rule-based decision ran on a catalog query one of whose hits is relevant
C7_Witness ==
    /\ RuleBasedDecided
    /\ ~HasCurrentEventsKeyword(query)
    /\ HasCatalogKeyword(query)
    /\ \E i \in 1..Len(kb_hits) : SomeLongWordOccurs(query, kb_hits[i])
    /\ decision.decision = "TOOL_CSV"

\* the three rationale texts of the KB decision
RationaleRelevant == "Query appears to be informational and relevant documents found in KB"
RationaleUnclear == "Query appears to be informational but KB content may not be relevant"
RationaleNoHits == "No documents found that match the query"

\* C8: a query with neither kind of keyword gets the rule-based decision KB, with
\* confidence 0.7 if some hit is relevant, 0.3 if there are hits but none is relevant and
\* 0.1 if there are no hits; each of the three cases has its own rationale text.
C8_KbConfidenceByRelevance ==
    (RuleBasedDecided /\ ~HasCurrentEventsKeyword(query) /\ ~HasCatalogKeyword(query))
        => /\ decision.decision = "KB"
           /\ IF \E i \in 1..Len(kb_hits) : SomeLongWordOccurs(query, kb_hits[i])
              THEN decision.confidence = 7 /\ decision.reason = RationaleRelevant
              ELSE IF kb_hits # << >>
              THEN decision.confidence = 3 /\ decision.reason = RationaleUnclear
              ELSE decision.confidence = 1 /\ decision.reason = RationaleNoHits
           /\ RationaleRelevant # RationaleUnclear
           /\ RationaleUnclear # RationaleNoHits
           /\ RationaleRelevant # RationaleNoHits

\* a KB decision at 0.3: there are hits, and the only query word that occurs in one of
\* them is not longer than 3 characters
C8_Witness ==
    /\ RuleBasedDecided
    /\ ~HasCurrentEventsKeyword(query)
    /\ ~HasCatalogKeyword(query)
    /\ kb_hits # << >>
    /\ LET words == Split(Lower(query))
       IN  \E i \in 1..Len(kb_hits), j \in 1..Len(words) :
              Len(words[j]) = 3 /\ Contains(Lower(kb_hits[i].text), words[j])
    /\ decision.confidence = 3

\* decide returned after neither json.loads of the text nor of its brace group succeeded
ParseFailed ==
    /\ pc = "tool"
    /\ llm_text.kind = "str"
    /\ JsonLoads(llm_text.s) = JsonError
    /\ HasBraces(llm_text.s) => JsonLoads(BraceGroup(llm_text.s)) = JsonError

C6_DecisionWellFormed ==
    pc = "tool"
        => /\ decision.kind = "object"
           /\ decision.decision \in { "KB", "TOOL_CSV", "TOOL_WEB", "TOOL_API" }
           /\ decision.confidence \in 0..10
           /\ decision.tool_args.kind = "object"

-----------------------------------------------------------------------------
(* Properties of the session pipeline. *)

\* a chain (decide, then final_answer) has run in the current call
ChainRan == pc \in { "tool", "final", "done" } \/ (pc = "raised" /\ attempts # << >>)

Attempted(level) == \E i \in 1..Len(attempts) : attempts[i] = level

EmptyToolResult ==
    \/ tool_result = NoResult
    \/ tool_result.kind = "list" /\ tool_result.items = << >>

\* C2: whenever the last decision is TOOL_CSV and the tool result is empty, the answer
\* is the explicit not-found statement and contains no text of any retrieval hit.
C2_AuthorityInvariant ==
    (pc = "done" /\ last_decision.decision = "TOOL_CSV" /\ EmptyToolResult)
        => /\ Contains(final, NotFoundAnswer)
           /\ \A i \in 1..Len(kb_hits) : ~Contains(final, Slice(kb_hits[i].text, 1, 40))

\* C5: handle_query returns without raising, whatever its collaborators do.
C5_HandleQueryNeverRaises == pc # "raised" /\ error = NoError

\* C9: query_history lists the queries handle_query was invoked with, in order, one
\* entry per invocation whichever level answered and also when the call raised;
\* total_queries of get_session_stats is the number of invocations; get_session_stats
\* changes nothing in the shared context.
C9_HistoryCountsInvocations ==
    /\ [](/\ query_history = invocations
          /\ stats # NoStats => stats.total_queries = Len(invocations))
    /\ [][stats' # stats /\ stats' # NoStats
            => UNCHANGED << query_history, tool_usage_count, last_decision >>]_vars

\* the same query asked twice, both calls over, one entry each in the statistics
C9_Witness ==
    /\ Len(invocations) = 2
    /\ invocations[1] = invocations[2]
    /\ stats # NoStats
    /\ stats.total_queries = 2

\* the counter key of the tool a decision selects, Absent if it selects none
SelectedCounter(d) ==
    IF d.kind # "object" THEN Absent
    ELSE IF d.decision = "TOOL_CSV" THEN "csv"
    ELSE IF d.decision = "TOOL_WEB" THEN "web"
    ELSE IF d.decision = "TOOL_API" THEN "api"
    ELSE Absent

\* C10: in each call the counter of the selected tool goes up by exactly one and no
\* other counter changes, a KB or unrecognised decision changes no counter, no other
\* step touches the counters; hence their sum never exceeds total_queries.
C10_OneIncrementPerSelectedTool ==
    /\ [][IF pc = "tool" /\ pc' # "tool"
          THEN tool_usage_count' =
                  [k \in DOMAIN tool_usage_count |->
                      IF k = SelectedCounter(decision) THEN tool_usage_count[k] + 1
                      ELSE tool_usage_count[k]]
          ELSE UNCHANGED tool_usage_count]_vars
    /\ [](tool_usage_count.csv + tool_usage_count.web + tool_usage_count.api
              <= Len(query_history))

-----------------------------------------------------------------------------
(* Properties of the candidate list and the lookup driver. *)

\* the tool step ran _csv_lookup_with_retries for the current query
DriverRan == pc \in { "final", "done" } /\ decision.decision = "TOOL_CSV"

\* C11: the driver looks the candidates up in their order, one log entry each, and
\* returns the rows of the first candidate that yields a row; no later candidate is
\* looked up, and the result is empty only after every candidate yielded no row.
C11_FirstYieldingCandidateWins ==
    DriverRan
        => LET cands == Candidates(ToolQuery(decision, query))
               n == Len(tool_meta)
           IN  /\ n >= 1
               /\ n <= Len(cands)
               /\ \A i \in 1..n :
                     tool_meta[i] = [attempt |-> cands[i].label, query |-> cands[i].query,
                                     latency_s |-> tool_meta[i].latency_s,
                                     rows |-> Len(Lookup(cands[i].query))]
               /\ \A i \in 1..(n - 1) : tool_meta[i].rows = 0
               /\ IF tool_meta[n].rows > 0
                  THEN tool_result = ListResult(Lookup(cands[n].query))
                  ELSE n = Len(cands) /\ tool_result = ListResult(<< >>)

\* the second or a later candidate yielded rows and a candidate after it was never tried
C11_Witness ==
    /\ DriverRan
    /\ Len(tool_meta) >= 2
    /\ tool_meta[Len(tool_meta)].rows > 0
    /\ Len(tool_meta) < Len(Candidates(ToolQuery(decision, query)))
    /\ tool_result.items # << >>

\* the place of a label in the priority order of the candidates
LabelRank(label) ==
    CASE label = "raw" -> 1
      [] label = "cleaned" -> 2
      [] label = "sku" -> 3
      [] label = "product" -> 4
      [] OTHER -> 0

\* C12: the candidate list starts with raw and follows the priority raw, cleaned, sku,
\* product, each label at most once; the cleaned candidate is there only if it differs
\* from the raw query, the product term only if it differs from every earlier
\* candidate; no two candidates carry the same string.
C12_CandidatesOrderedAndDistinct ==
    DriverRan
        => LET cands == Candidates(ToolQuery(decision, query))
           IN  /\ cands[1].label = "raw"
               /\ \A i \in 1..Len(cands) : LabelRank(cands[i].label) >= 1
               /\ \A i, j \in 1..Len(cands) :
                     i < j => /\ LabelRank(cands[i].label) < LabelRank(cands[j].label)
                              /\ cands[i].query # cands[j].query

\* a query whose product term equals its cleaned form: cleaned is a candidate, the
\* product term is not
C12_Witness ==
    /\ DriverRan
    /\ ExtractProduct(query) = Cleaned(query)
    /\ Len(Candidates(query)) = 2
    /\ Candidates(query)[2].label = "cleaned"
    /\ Len(tool_meta) = 2

\* C13: for any query string, the empty one and one of punctuation only included,
\* building the candidates and looking them up raises nothing, and the first candidate
\* is labelled raw and carries the query unchanged.
C13_RawCandidateFirstUnchanged ==
    /\ pc # "raised"
    /\ error = NoError
    /\ DriverRan
          => /\ Candidates(query)[1] = [label |-> "raw", query |-> query]
             /\ tool_meta[1].attempt = "raw"
             /\ tool_meta[1].query = query

\* the driver ran for an empty query and for a query of punctuation only
C13_Witness ==
    /\ DriverRan
    /\ query \in { "", "?!" }
    /\ Cleaned(query) = ""
    /\ tool_meta[1].query = query

\* the positions of q where the letters s, k, u stand in any letter case
MarkerPositions(q) == { i \in 1..(Len(q) - 2) : Lower(SubSeq(q, i, i + 2)) = "sku" }

\* the end of the run of letters and digits that starts at position i (i - 1 if empty)
AlnumEnd(q, i) ==
    CHOOSE e \in (i - 1)..Len(q) :
        /\ \A k \in i..e : IsAlnum(Char(q, k))
        /\ (e = Len(q) \/ ~IsAlnum(Char(q, e + 1)))

\* the run of letters and digits that follows the marker at position i and its separators
TokenAfterMarker(q, i) ==
    SubSeq(q, RunEnd(q, i + 3, "sep") + 1, AlnumEnd(q, RunEnd(q, i + 3, "sep") + 1))

\* the alphanumeric token that follows the first sku marker of q, Absent if there is none
MarkedToken(q) ==
    IF MarkerPositions(q) = {} \/ TokenAfterMarker(q, Least(MarkerPositions(q))) = ""
    THEN Absent
    ELSE TokenAfterMarker(q, Least(MarkerPositions(q)))

\* C14: for every query with a sku marker, in any letter case and followed by '-', ':',
\* blanks or nothing, and then an alphanumeric token, the candidate list has a sku
\* candidate equal to that token in upper case, whatever punctuation stands around the
\* marker or after the token.
C14_SkuCandidateIsMarkedToken ==
    (DriverRan /\ MarkedToken(query) # Absent)
        => \E i \in 1..Len(Candidates(query)) :
               Candidates(query)[i] = [label |-> "sku", query |-> Upper(MarkedToken(query))]

\* the query has no sku marker and its whole cleaned form has the bare SKU shape
BareSkuQuery == MarkerPositions(query) = {} /\ IsBareSku(Cleaned(query))

\* the number of rows of the table whose sku equals tok, letter case ignored
RowsOfSku(tok) ==
    Cardinality({ k \in 1..Len(Df) : Df[k].sku # Absent /\ Lower(Df[k].sku) = Lower(tok) })

AllCandidatesEmpty ==
    /\ Len(tool_meta) = Len(Candidates(query))
    /\ \A i \in 1..Len(tool_meta) :
          tool_meta[i] = [attempt |-> Candidates(query)[i].label,
                          query |-> Candidates(query)[i].query,
                          latency_s |-> tool_meta[i].latency_s, rows |-> 0]
    /\ tool_result = ListResult(<< >>)

\* C16: with a catalog that failed to load, lookup returns an empty row list for every
\* query and raises nothing; for a TOOL_CSV decision the driver then tries every
\* candidate, each logged with 0 rows, and the answer is the not-found statement and
\* never text of the knowledge base.
C16_UnloadedCatalogNotFound ==
    cfg.df = "none"
        => /\ pc # "raised"
           /\ DriverRan => AllCandidatesEmpty
           /\ (pc = "done" /\ decision.decision = "TOOL_CSV")
                 => /\ Contains(final, NotFoundAnswer)
                    /\ \A i \in 1..Len(kb_hits) :
                          ~Contains(final, Slice(kb_hits[i].text, 1, 40))

-----------------------------------------------------------------------------
(* Properties of CSVActor.lookup. *)

\* the query as lookup sanitizes it (q_clean)
Sanitized(q) == Strip(FilterLookup(Strip(q)))

\* lookup ran on a loaded table for a query that reduces to a SKU-shaped token and has
\* no list intent
SkuLookupRan ==
    /\ pc = "looked"
    /\ cfg.df # "none"
    /\ ~IsListIntent(Lower(Sanitized(query)))
    /\ IsSkuToken(Sanitized(query)) # Absent

\* C17: on a loaded table with a sku column, for a query without list intent whose
\* sanitized form reduces to a SKU-shaped token, lookup returns exactly the rows whose
\* sku equals the token, letter case ignored: every such row, in table order, no row
\* that merely contains the token, and nothing when no sku equals it.
C17_ExactSkuEquality ==
    (SkuLookupRan /\ cfg.df = "catalog")
        => /\ Len(tool_result.items) = RowsOfSku(IsSkuToken(Sanitized(query)))
           /\ \A k \in 1..Len(tool_result.items) :
                 /\ Lower(tool_result.items[k].sku) = Lower(IsSkuToken(Sanitized(query)))
                 /\ \E j \in 1..Len(Df) : tool_result.items[k].name = Df[j].name
                                           /\ tool_result.items[k].sku = Df[j].sku

\* a token that is a proper part of another row's sku: only the row that equals it
C17_Witness ==
    /\ SkuLookupRan
    /\ cfg.df = "catalog"
    /\ Len(tool_result.items) = 1
    /\ \E j \in 1..Len(Df) :
          /\ Df[j].sku # tool_result.items[1].sku
          /\ Contains(Df[j]._sku_lc, Lower(IsSkuToken(Sanitized(query))))

\* the number of lines of an answer before its trace
AnswerLines(answer) ==
    LET t == Least({ i \in 1..Len(answer) : Slice(answer, i, i + 8) = "\n\nTrace:\n" })
    IN  Cardinality({ i \in 1..(t - 1) : Char(answer, i) = "\n" }) + 1

\* the driver ran on a loaded table for a query in which lookup sees the list intent
ListLookupRan ==
    /\ DriverRan
    /\ cfg.df # "none"
    /\ IsListIntent(Lower(Sanitized(query)))

\* C18: for a query with list intent and a loaded table of n rows, lookup returns all
\* n rows, in table order, whatever SKU token or search text the query also holds, and
\* the rule-based composer writes exactly n lines, one per row.
C18_ListIntentReturnsEveryRow ==
    ListLookupRan
        => /\ tool_meta = << [attempt |-> "raw", query |-> query,
                             latency_s |-> tool_meta[1].latency_s, rows |-> Len(Df)] >>
           /\ Len(tool_result.items) = Len(Df)
           /\ \A k \in 1..Len(Df) :
                 /\ tool_result.items[k].name = Df[k].name
                 /\ tool_result.items[k].sku = Df[k].sku
                 /\ tool_result.items[k].label = Df[k].label
           /\ (pc = "done" /\ Attempted("rule")) => AnswerLines(final) = Len(Df)

\* a list query that also names a sku: the whole catalog is returned and listed
C18_Witness ==
    /\ ListLookupRan
    /\ pc = "done"
    /\ Attempted("rule")
    /\ IsSkuToken(Sanitized(query)) # Absent
    /\ Len(tool_result.items) = 3
    /\ AnswerLines(final) = 3

\* the keys of a returned row
ItemKeys(item) == { k \in DOMAIN item : item[k] # Absent }

ShadowCols == { "_sku_lc", "_name_lc", "_desc_lc" }

\* lookup returned at least one row
RowsReturned == pc = "looked" /\ tool_result.items # << >>

\* C19: every row lookup returns, in each of its branches and for every normalized
\* table, holds canonical display fields only (sku, name, category, price, currency,
\* stock, description), and no shadow field.
C19_CanonicalFieldsOnly ==
    RowsReturned
        => \A k \in 1..Len(tool_result.items) : ItemKeys(tool_result.items[k]) \subseteq CanonicalCols

\* C19, amended: no row lookup returns holds a shadow field; its fields are the
\* canonical display columns of the table if the table has any, and otherwise, for a
\* table with no canonical column, all its columns whose name does not start with an
\* underscore.
C19_NoShadowFieldLeaks ==
    RowsReturned
        => \A k \in 1..Len(tool_result.items) :
               /\ ItemKeys(tool_result.items[k]) \cap ShadowCols = {}
               /\ IF Columns(Df[1]) \cap CanonicalCols # {}
                  THEN ItemKeys(tool_result.items[k]) = Columns(Df[1]) \cap CanonicalCols
                  ELSE ItemKeys(tool_result.items[k]) = Columns(Df[1]) \ ShadowCols

\* the substring search returned rows of the catalog, whose table carries the three
\* search columns: the rows hold the seven canonical fields and nothing else
C19_Witness ==
    /\ RowsReturned
    /\ cfg.df = "catalog"
    /\ ShadowCols \subseteq Columns(Df[1])
    /\ ~IsListIntent(Lower(Sanitized(query)))
    /\ IsSkuToken(Sanitized(query)) = Absent
    /\ ItemKeys(tool_result.items[1]) = CanonicalCols

-----------------------------------------------------------------------------
(* The scenario of the query 'find sku PEN456'. *)

\* the driver ran for 'find sku PEN456' on the catalog, which has the row PEN456
FindSkuRan == DriverRan /\ cfg.df = "catalog" /\ query = "find sku PEN456"

\* the driver returned the row PEN456 and no other
OnlyPen456 ==
    /\ Len(tool_result.items) = 1
    /\ tool_result.items[1].sku = "PEN456"
    /\ tool_result.items[1].name = "Pen"

\* C20: for a catalog with the row PEN456 and the query 'find sku PEN456' the driver
\* returns exactly that row, and the attempt that yields it, the last entry of the
\* attempts log, is the candidate labelled sku.
C20_FoundViaSkuCandidate ==
    FindSkuRan => (OnlyPen456 /\ tool_meta[Len(tool_meta)].attempt = "sku")

\* C20, amended: for a catalog with the row PEN456 and the query 'find sku PEN456' the
\* driver returns exactly that row at its first attempt, the raw candidate: lookup
\* takes the token after the marker out of the raw query itself. The attempts log has
\* that one entry, and the cleaned and sku candidates are never looked up.
C20_FoundViaRawCandidate ==
    FindSkuRan
        => /\ OnlyPen456
           /\ tool_meta = << [attempt |-> "raw", query |-> query,
                             latency_s |-> tool_meta[1].latency_s, rows |-> 1] >>
           /\ \E i \in 2..Len(Candidates(query)) :
                 Candidates(query)[i] = [label |-> "sku", query |-> "PEN456"]

\* the scenario ran to its answer
C20_Witness ==
    /\ FindSkuRan
    /\ pc = "done"
    /\ OnlyPen456
    /\ Len(tool_meta) = 1

-----------------------------------------------------------------------------
(* Properties of the rule-based composer. *)

\* the rule-based composer wrote the answer of the call
RuleComposed == pc = "done" /\ Attempted("rule")

\* where the trace of an answer starts: the position of the separator
TraceAt(answer) ==
    Least({ i \in 1..Len(answer) : Slice(answer, i, i + 8) = "\n\nTrace:\n" })

\* the part of an answer before its trace
AnswerText(answer) == Slice(answer, 1, TraceAt(answer) - 1)

\* the trace of an answer, and the number of its lines
TraceText(answer) == Slice(answer, TraceAt(answer) + 9, Len(answer))

TraceLines(answer) ==
    Cardinality({ i \in 1..Len(TraceText(answer)) : Char(TraceText(answer), i) = "\n" }) + 1

\* the query asks for a list: show, list or available, and product(s) or item(s)
WantsList(q) ==
    /\ \E w \in { "show", "list", "available" } : Contains(Lower(q), w)
    /\ \E w \in { "product", "item" } : Contains(Lower(q), w)

\* the composer reached its branch for a non-empty list (the results of a web search,
\* which the earlier web branch renders, aside) with a query that asks for no list
SingleRecordCase ==
    /\ RuleComposed
    /\ last_decision.decision # "TOOL_WEB"
    /\ tool_result.kind = "list"
    /\ tool_result.items # << >>
    /\ ~WantsList(query)

\* a field of a row as the composer reads it
Field(cell, default) == IF cell = Absent THEN default ELSE cell

\* C21: for a non-empty list result and a query without list intent the rule-based
\* composer renders the first row only, as '<name>: <price> <currency>' followed by
\* 'SKU: <sku>' when the row has a sku, then exactly 3 trace lines that cite the CSV as
\* authoritative; no row after the first appears in the answer.
C21_FirstRowOnly ==
    SingleRecordCase
        => LET first == tool_result.items[1]
               head == Strip(Field(first.name, "Unknown") \o ": " \o Field(first.price, "N/A")
                             \o " " \o Field(first.currency, ""))
           IN  /\ AnswerText(final) =
                     IF first.sku \in { Absent, "" } THEN head
                     ELSE head \o "\nSKU: " \o first.sku
               /\ TraceLines(final) = 3
               /\ Contains(TraceText(final), "authoritative price from CSV")
               /\ \A k \in 2..Len(tool_result.items) :
                     \A f \in { "name", "sku", "title" } :
                         tool_result.items[k][f] \notin { Absent, "", first[f] }
                             => ~Contains(final, tool_result.items[k][f])

\* three catalog rows and a query for one sku: the answer names the first row alone
C21_Witness ==
    /\ SingleRecordCase
    /\ Len(tool_result.items) = 3
    /\ final = "Pen: 1.5 USD\nSKU: PEN456\n\nTrace:\n1. Selected CSV for pricing\n"
                \o "2. Retrieved product row from CSV\n"
                \o "3. Returned authoritative price from CSV"

-----------------------------------------------------------------------------
(* Properties of Retriever.retrieve. *)

\* the documents whose text contains the query, letter case ignored, in corpus order
Matching(q) == SelectSeq(Docs, LAMBDA d : Contains(Lower(d.text), Lower(q)))

\* the vector path of the last retrieve call failed, at whichever stage
PrimaryFailed == invocations # << >> /\ retriever.failed # "none"

\* C22: whenever the vector path fails, at the build (the embedding backend, writing the
\* index) or at the search, retrieve raises nothing and returns the keyword result: the
\* documents whose text contains the query, letter case ignored, in the order they are
\* found, each with the same constant score, cut to at most top_k.
C22_FallbackToKeywordSearch ==
    /\ pc # "raised"
    /\ PrimaryFailed
          => /\ Len(kb_hits) = Min(Len(Matching(query)), retriever.top_k)
             /\ \A i \in 1..Len(kb_hits) :
                   /\ kb_hits[i].id = Matching(query)[i].id
                   /\ kb_hits[i].text = Matching(query)[i].text
                   /\ kb_hits[i].sim = 100

\* the search raised for a query that more documents contain than top_k allows
C22_Witness ==
    /\ PrimaryFailed
    /\ retriever.failed = "search_embed"
    /\ Len(Matching(query)) > retriever.top_k
    /\ Len(kb_hits) = retriever.top_k

\* the last retrieve call returned the hits of the vector search
VectorPath ==
    /\ invocations # << >>
    /\ retriever.failed = "none"
    /\ retriever.index \in { "loaded", "built" }

\* C23: the hits retrieve returns on the vector path are in descending order of their
\* similarity: sim of a hit is at least sim of the next one, so the first hit is the
\* most similar document.
C23_HitsByDescendingSim ==
    VectorPath => \A i \in 1..(Len(kb_hits) - 1) : kb_hits[i].sim >= kb_hits[i + 1].sim

\* C24: over any sequence of retrieve calls on one Retriever an existing index, read
\* from disk or built by an earlier call, is reused and never rebuilt; otherwise the
\* index is built once: the build runs at most once over the whole sequence.
C24_BuildRunsAtMostOnce ==
    /\ retriever.builds <= 1
    /\ retriever.index \in { "loaded", "empty" } => retriever.builds = 0

\* C24, amended: an existing index, read from disk or set by an earlier call, is reused
\* and never rebuilt, so at most one build sets the index; but a build that fails
\* before the index is set (the embedding backend raises) leaves no index, and every
\* later call runs the build again until one sets it.
C24_IndexSetAtMostOnce ==
    [][/\ retriever.index # "none"
            => retriever'.index = retriever.index /\ retriever'.builds = retriever.builds
       /\ retriever.index = "none" /\ invocations' # invocations
            => /\ retriever'.builds = retriever.builds + 1
               /\ retriever'.index \in { "none", "built" }
               /\ retriever'.index = "none" <=> retriever'.failed = "build_embed"
       /\ retriever'.builds > retriever.builds /\ retriever.builds >= 1
            => retriever.failed = "build_embed"]_vars

\* the first call's build failed on the embedding backend, the second call built the
\* index
C24_Witness ==
    /\ Len(invocations) = 2
    /\ retriever.builds = 2
    /\ retriever.index = "built"

-----------------------------------------------------------------------------
(* Properties of the rule-based composer, continued. *)

\* the rule-based composer rendered a non-empty list after a TOOL_WEB decision
WebCase ==
    /\ RuleComposed
    /\ last_decision.decision = "TOOL_WEB"
    /\ tool_result.kind = "list"
    /\ tool_result.items # << >>

\* the first of three fields of a web result that is present and not empty, "" if none
FirstPresent(a, b, c) ==
    IF a \notin { Absent, "" } THEN a
    ELSE IF b \notin { Absent, "" } THEN b
    ELSE IF c \notin { Absent, "" } THEN c
    ELSE ""

\* the line the claim expects for a web result
ExpectedWebLine(item) ==
    IF FirstPresent(item.snippet, item.content, item.description) = ""
    THEN Strip(Field(item.title, "Result"))
    ELSE Strip(Field(item.title, "Result")) \o ": "
         \o Strip(FirstPresent(item.snippet, item.content, item.description))

\* C25: when the last decision is TOOL_WEB and the tool result is a non-empty list of n
\* results, the rule-based composer renders exactly min(5, n) lines in the order of the
\* results, each '<title>: <snippet>' with the snippet taken from snippet, else content,
\* else description (the title alone if there is none), and no text of a retrieval hit.
C25_WebResultsUpToFive ==
    WebCase
        => /\ AnswerLines(final) = Min(5, Len(tool_result.items))
           /\ AnswerText(final) =
                 Join("\n", [i \in 1..Min(5, Len(tool_result.items)) |->
                                ExpectedWebLine(tool_result.items[i])])
           /\ \A i \in 1..Len(kb_hits) : ~Contains(final, Slice(kb_hits[i].text, 1, 40))

\* six results, relevant hits at hand: five lines, one of them from the content key
C25_Witness ==
    /\ WebCase
    /\ Len(tool_result.items) = 6
    /\ AnswerLines(final) = 5
    /\ Contains(final, "\nChips: New GPU\nLabs: Funding round\nTitle only\nResult: No title\n\n")
    /\ Len(RelevantHits(query, kb_hits)) > 0

\* the rule-based composer reached its last branch with no tool result (after a
\* TOOL_CSV decision the not-found branch answers before it)
NoToolCase ==
    /\ RuleComposed
    /\ tool_result = NoResult
    /\ last_decision.decision # "TOOL_CSV"

\* the hit is relevant to the query: a word of the query longer than 3 characters
\* occurs in its text, letter case ignored
RelevantTo(q, hit) ==
    \E i \in 1..Len(Split(Lower(q))) :
        Len(Split(Lower(q))[i]) > 3 /\ Contains(Lower(hit.text), Split(Lower(q))[i])

\* C26: with no tool result the rule-based composer renders at most 2 snippets, of
\* relevant hits only, in hit order, each cut to 200 characters of the hit text, if some
\* hit is relevant; a neutral found-but-not-relevant statement if there are hits and
\* none is relevant; a neutral nothing-found statement if there is no hit.
C26_KbSnippetsOrNeutral ==
    NoToolCase
        => LET rel == SelectSeq(kb_hits, LAMBDA h : RelevantTo(query, h))
           IN  IF Len(rel) > 0
               THEN /\ AnswerLines(final) = 1 + Min(2, Len(rel))
                    /\ AnswerText(final) =
                          Join("\n", << "Based on the knowledge base:" >>
                                     \o [i \in 1..Min(2, Len(rel)) |->
                                            "- " \o Slice(rel[i].text, 1, 200) \o "..."])
                    /\ \A i \in 1..Len(kb_hits) :
                          Len(kb_hits[i].text) > 200 => ~Contains(final, kb_hits[i].text)
               ELSE IF Len(kb_hits) > 0
               THEN AnswerText(final) =
                        "Found knowledge base documents, but none appear directly relevant to the query."
               ELSE AnswerText(final) = "No relevant information found to answer the query."

\* three relevant hits, the first longer than 200 characters: two snippets, the first
\* one cut
C26_Witness ==
    /\ NoToolCase
    /\ Len(kb_hits) = 3
    /\ \A i \in 1..3 : RelevantTo(query, kb_hits[i])
    /\ Len(kb_hits[1].text) > 200
    /\ AnswerLines(final) = 3
    /\ ~Contains(final, kb_hits[3].text)

\* the answer has two parts: a text, and after the separator at least one trace step
HasAnswerAndTrace(answer) ==
    /\ answer # Absent
    /\ Contains(answer, "\n\nTrace:\n")
    /\ AnswerText(answer) # ""
    /\ TraceText(answer) # ""
    /\ Slice(TraceText(answer), 1, 3) = "1. "

\* C27: every branch of the composer returns an answer text together with an ordered,
\* non-empty list of trace steps that tells which branch was taken.
C27_AnswerAlwaysCarriesTrace == pc = "done" => HasAnswerAndTrace(final)

(***************************************************************************)
(* Properties of the trace handle_query returns                            *)
(***************************************************************************)

\* the step names of a trace, in order
StepNames(t) == [i \in 1..Len(t) |-> t[i].step]

\* the decision selected one of the three tools
SelectedTool == decision.decision \in { "TOOL_CSV", "TOOL_WEB", "TOOL_API" }

\* C28: the trace of a query that returned has one retrieval step, one reasoner_decision
\* step, a tool_call step exactly when the decision selected TOOL_CSV, TOOL_WEB or
\* TOOL_API (naming that tool), and one final_answer step, in this order.
C28_TraceShape ==
    pc = "done" =>
        IF SelectedTool
        THEN /\ StepNames(trace) = << "retrieval", "reasoner_decision", "tool_call", "final_answer" >>
             /\ trace[3].tool = decision.decision
        ELSE StepNames(trace) = << "retrieval", "reasoner_decision", "final_answer" >>

\* what remains true: the tool_call step is there exactly when a tool was selected and
\* its result is not None
TraceShapeWhenResult ==
    pc = "done" =>
        IF SelectedTool /\ tool_result # NoResult
        THEN /\ StepNames(trace) = << "retrieval", "reasoner_decision", "tool_call", "final_answer" >>
             /\ trace[3].tool = decision.decision
        ELSE StepNames(trace) = << "retrieval", "reasoner_decision", "final_answer" >>

\* the test suite's reading of a trace: the tool of the first tool_call step, if any
ActualTool(t) ==
    IF \E i \in 1..Len(t) : t[i].step = "tool_call"
    THEN t[Least({ i \in 1..Len(t) : t[i].step = "tool_call" })].tool
    ELSE Absent

\* C29: the tool read from the first tool_call step of the trace is the tool the decision
\* selected, KB included: a KB query is reported with actual tool "KB".
C29_ActualToolIsDecision == pc = "done" => ActualTool(trace) = decision.decision

\* the same for the three tools alone, when the call gave a result
ActualToolOfToolDecisions ==
    (pc = "done" /\ SelectedTool /\ tool_result # NoResult) => ActualTool(trace) = decision.decision

\* a KB decision leaves no tool_call step to read
KbHasNoToolCall ==
    (pc = "done" /\ decision.decision = "KB") => ActualTool(trace) = Absent

(***************************************************************************)
(* Properties of the answer after a failed tool call                       *)
(***************************************************************************)

\* the selected tool gave nothing to answer from: the web search no result, the API
\* call the error payload or None
ToolFailedTotally ==
    \/ last_decision.decision = "TOOL_WEB" /\ tool_result = ListResult(<< >>)
    \/ last_decision.decision = "TOOL_API" /\ tool_result \in { ErrorResult, NoResult }

NeutralStatements ==
    { "Found knowledge base documents, but none appear directly relevant to the query.",
      "No relevant information found to answer the query." }

\* C30: when the selected web or API tool fails totally, the query is still answered, and
\* the answer is a neutral no-information statement, whatever the retrieval hits are.
C30_NeutralAnswerOnToolFailure ==
    (pc = "done" /\ ToolFailedTotally)
        => /\ final # Absent
           /\ AnswerText(final) \in NeutralStatements

\* the rule-based composer alone: neutral exactly when no hit is relevant to the query,
\* snippets of the relevant hits otherwise
RuleAnswerOnToolFailure ==
    (RuleComposed /\ ToolFailedTotally)
        => IF \E i \in 1..Len(kb_hits) : RelevantTo(query, kb_hits[i])
           THEN /\ AnswerText(final) \notin NeutralStatements
                /\ Slice(AnswerText(final), 1, 28) = "Based on the knowledge base:"
           ELSE AnswerText(final) \in NeutralStatements

(***************************************************************************)
(* Properties of the normalized catalog                                    *)
(***************************************************************************)

\* the cell of row r of self.df in column n
CellOf(r, n) == csv_actor.rows[r][ColumnOf(csv_actor.columns, n)]

\* C31: in a normalized catalog, and after any sequence of lookups on it, each lower-cased
\* search column of each row equals the canonical column it copies, trimmed and
\* lower-cased; a search column exists exactly when its canonical column does.
C31_ShadowIsCanonicalLowered ==
    csv_actor.status = "normalized"
        => \A k \in 1..Len(ShadowPairs) :
              /\ HasColumn(csv_actor.columns, ShadowPairs[k][1])
                    <=> HasColumn(csv_actor.columns, ShadowPairs[k][2])
              /\ HasColumn(csv_actor.columns, ShadowPairs[k][2])
                    => \A r \in 1..Len(csv_actor.rows) :
                          CellOf(r, ShadowPairs[k][1])
                              = Lower(Strip(CellOf(r, ShadowPairs[k][2])))

\* a table whose sku cell was " Cof001 " has been normalized and looked up for every row
C31_Witness ==
    /\ csv_actor.status = "normalized"
    /\ pc = "looked"
    /\ tool_result # NoResult
    /\ HasColumn(csv_actor.columns, "sku")
    /\ HasColumn(csv_actor.columns, "name")
    /\ CellOf(2, "sku") = "Cof001"
    /\ CellOf(2, "_sku_lc") = "cof001"
    /\ CellOf(1, "_name_lc") = "blue pen"
    /\ query = "show all products"
    /\ Len(tool_result.items) = 2

(***************************************************************************)
(* Properties of the rule-based decision, continued                        *)
(***************************************************************************)

\* the tool and the confidence that follow from the query and the hits alone
ToolByKeywords(q) ==
    IF HasCurrentEventsKeyword(q) THEN "TOOL_WEB"
    ELSE IF HasCatalogKeyword(q) THEN "TOOL_CSV"
    ELSE "KB"

ConfidenceByInputs(q, hits) ==
    IF HasCurrentEventsKeyword(q) \/ HasCatalogKeyword(q) THEN 9
    ELSE IF \E i \in 1..Len(hits) : SomeLongWordOccurs(q, hits[i]) THEN 7
    ELSE IF hits # << >> THEN 3
    ELSE 1

\* C32: the rule-based decision is total and deterministic: whenever it is the level that
\* decides, decide returns a Decision that is a function of the query and the hits alone
\* (whatever the history, the counters and last_decision are), and neither decide nor
\* the tool step raises on it.
C32_RuleDecisionTotalAndDeterministic ==
    /\ RuleBasedDecided
          => /\ decision.kind = "object"
             /\ decision.decision = ToolByKeywords(query)
             /\ decision.confidence = ConfidenceByInputs(query, kb_hits)
             /\ decision.tool_args =
                   IF ToolByKeywords(query) = "KB" THEN EmptyArgs ELSE QueryArgs(query)
    /\ (pc = "raised" /\ attempts # << >>) => attempts[Len(attempts)] # "rule"

\* the rule-based decision runs for a query asked before, in a session whose last
\* decision was another one and whose api counter is not 0
C32_Witness ==
    /\ RuleBasedDecided
    /\ Len(invocations) = 2
    /\ invocations[1] = invocations[2]
    /\ last_decision.kind = "object"
    /\ last_decision.decision # decision.decision
    /\ tool_usage_count.api > 0

(***************************************************************************)
(* Properties of the recovery from a text that is no JSON document         *)
(***************************************************************************)

\* the ends of the substrings of s that start at its first "{" and are a JSON object
FirstObjectEnds(s) ==
    { j \in 1..Len(s) :
        \E i \in 1..j :
            /\ Char(s, i) = "{"
            /\ \A k \in 1..(i - 1) : Char(s, k) # "{"
            /\ JsonLoads(SubSeq(s, i, j)).kind = "object" }

\* the first brace-delimited substring of s that is a JSON object, parsed
FirstObject(s) ==
    JsonLoads(SubSeq(s, Least({ i \in 1..Len(s) : Char(s, i) = "{" }),
                     Least(FirstObjectEnds(s))))

\* decide returned on a backend text that is no JSON document as a whole but whose first
\* brace-delimited substring is a decision object
RecoverableText ==
    /\ pc = "tool"
    /\ llm_text.kind = "str"
    /\ JsonLoads(llm_text.s) = JsonError
    /\ FirstObjectEnds(llm_text.s) # {}

\* C33: when a backend's text is not valid JSON as a whole but its first brace-delimited
\* substring is a well-formed decision object, decide returns that object, also when
\* further braces follow the object in the text.
C33_FirstBraceObjectRecovered ==
    RecoverableText => decision = FirstObject(llm_text.s)

\* the same when no "}" follows the object in the text
RecoveredWhenNoBraceFollows ==
    (RecoverableText
        /\ \A k \in (Least(FirstObjectEnds(llm_text.s)) + 1)..Len(llm_text.s) :
               Char(llm_text.s, k) # "}")
        => decision = FirstObject(llm_text.s)

\* with a "}" after the object the pattern takes everything up to the last "}", which
\* does not parse, and decide returns the default
DefaultWhenBraceFollows ==
    (RecoverableText
        /\ \E k \in (Least(FirstObjectEnds(llm_text.s)) + 1)..Len(llm_text.s) :
               Char(llm_text.s, k) = "}")
        => decision = ParseFailureDecision

(***************************************************************************)
(* Properties of the latencies                                             *)
(***************************************************************************)

\* the sum of the elapsed times of an attempts log
RECURSIVE AttemptsLatency(_)
AttemptsLatency(log) ==
    IF log = << >> THEN 0 ELSE log[1].latency_s + AttemptsLatency(Tail(log))

\* C34: the attempts log is the prefix of the candidate list that was looked up, in order,
\* one entry per candidate with its label, its text, its elapsed time and its row count;
\* every entry but the last has row count 0, and the total latency the driver returns
\* (the latency of the tool_call step) is the sum of the elapsed times of the entries,
\* whether or not a candidate yielded a row.
C34_AttemptsLogAndTotalLatency ==
    DriverRan
        => /\ Len(tool_meta) >= 1
           /\ Len(tool_meta) <= Len(Candidates(ToolQuery(decision, query)))
           /\ \A i \in 1..Len(tool_meta) :
                 /\ DOMAIN tool_meta[i] = { "attempt", "query", "latency_s", "rows" }
                 /\ tool_meta[i].attempt = Candidates(ToolQuery(decision, query))[i].label
                 /\ tool_meta[i].query = Candidates(ToolQuery(decision, query))[i].query
                 /\ tool_meta[i].latency_s \in durations
                 /\ tool_meta[i].rows = Len(tool_result.items) \/ tool_meta[i].rows = 0
                 /\ i < Len(tool_meta) => tool_meta[i].rows = 0
           /\ tool_meta[Len(tool_meta)].rows = Len(tool_result.items)
           /\ trace[3].step = "tool_call"
           /\ trace[3].latency_s = AttemptsLatency(tool_meta)

\* two candidates were looked up, the second one yielded a row, and the lookups took
\* 1 and 2 ticks
C34_Witness ==
    /\ DriverRan
    /\ Len(tool_meta) = 2
    /\ tool_meta[1].rows = 0
    /\ tool_meta[2].rows > 0
    /\ tool_meta[1].latency_s = 1
    /\ tool_meta[2].latency_s = 2
    /\ trace[3].latency_s = 3

(***************************************************************************)
(* Properties of the decision the composer consults                        *)
(***************************************************************************)

\* C35: in every call of a sequence, when the composer has run, last_decision is the
\* decision decide produced for the same query, and the tool step came before it: the
\* rule-based composer answers not-found exactly when this query's decision is TOOL_CSV
\* and its lookup gave no row, whatever the query before was decided.
C35_ComposerSeesCurrentDecision ==
    pc = "done"
        => /\ last_decision = decision
           /\ trace[Len(trace)].step = "final_answer"
           /\ \A i \in 1..(Len(trace) - 1) : trace[i].step # "final_answer"
           /\ RuleComposed
                 => (AnswerText(final) = NotFoundAnswer
                        <=> (decision.decision = "TOOL_CSV" /\ tool_result = ListResult(<< >>)))

\* a KB query answered from the knowledge base right after a catalog query that found
\* nothing
C35_Witness ==
    /\ RuleComposed
    /\ invocations = << "find sku PEN456.", "What is cloud pricing?" >>
    /\ cfg.df = "none"
    /\ tool_usage_count.csv = 1
    /\ decision.decision = "KB"
    /\ tool_result = NoResult
    /\ Slice(final, 1, 28) = "Based on the knowledge base:"

(***************************************************************************)
(* Properties that relate the rule-based decision and the composer         *)
(***************************************************************************)

\* the decision is a KB decision of the rule-based level (told by its rationale), no
\* tool ran, and the rule-based composer wrote the answer
RuleKbAnswered ==
    /\ RuleComposed
    /\ decision.decision = "KB"
    /\ decision.reason \in { RationaleRelevant, RationaleUnclear, RationaleNoHits }
    /\ tool_result = NoResult

\* C36: the composer and the rule-based decision apply the same relevance test: with no
\* tool result a rule-based KB decision of confidence 0.7 is followed by a knowledge-base
\* snippet answer, one of 0.3 by the found-but-not-relevant statement and one of 0.1 by
\* the nothing-found statement.
C36_AnswerFollowsKbConfidence ==
    RuleKbAnswered
        => /\ decision.confidence \in { 7, 3, 1 }
           /\ decision.confidence = 7
                 <=> Slice(AnswerText(final), 1, 28) = "Based on the knowledge base:"
           /\ decision.confidence = 3
                 <=> AnswerText(final)
                        = "Found knowledge base documents, but none appear directly relevant to the query."
           /\ decision.confidence = 1
                 <=> AnswerText(final) = "No relevant information found to answer the query."

\* the only query word that occurs in a hit has 3 characters: confidence 0.3 and the
\* found-but-not-relevant statement
C36_Witness ==
    /\ RuleKbAnswered
    /\ kb_hits # << >>
    /\ \E i \in 1..Len(kb_hits) : \E j \in 1..Len(Split(Lower(query))) :
          /\ Len(Split(Lower(query))[j]) = 3
          /\ Contains(Lower(kb_hits[i].text), Split(Lower(query))[j])
    /\ decision.confidence = 3
    /\ Slice(AnswerText(final), 1, 5) = "Found"

(***************************************************************************)
(* Properties of the session latency                                       *)
(***************************************************************************)

\* every call made so far has returned
AllCallsReturned == pc = "done" /\ returned.calls = Len(invocations)

\* C37: after any sequence of completed calls the session's total_latency is the sum of
\* latency_s over all the trace entries those calls returned, and total_latency never
\* decreases.
C37_TotalLatencyIsSumOfTraces ==
    [][/\ total_latency' >= total_latency
       /\ AllCallsReturned' => total_latency' = returned'.latency_s]_vars

\* two calls returned, one with a tool_call step and this one without
C37_Witness ==
    /\ AllCallsReturned
    /\ returned.calls = 2
    /\ tool_usage_count.csv = 1
    /\ StepNames(trace) = << "retrieval", "reasoner_decision", "final_answer" >>
    /\ total_latency = returned.latency_s
    /\ total_latency >= 8

\* a call that raised has added the latencies of its finished steps to the total, and
\* returns no trace
TotalExceedsTracesAfterRaise ==
    (pc = "done" /\ returned.calls < Len(invocations)) => total_latency > returned.latency_s

(***************************************************************************)
(* Properties of the source the composer names                             *)
(***************************************************************************)

\* the trace of the answer names CSV as the selected source
TraceNamesCsv(answer) == Contains(TraceText(answer), "1. Selected CSV for")

\* C38: the rule-based composer renders a tool result as catalog rows, with a trace that
\* names CSV as the selected and authoritative source, only when the last decision is
\* TOOL_CSV; a non-empty list returned by TOOL_API is never presented that way.
C38_CsvTraceOnlyAfterCsvDecision ==
    (RuleComposed /\ TraceNamesCsv(final)) => last_decision.decision = "TOOL_CSV"

\* what the composer does with a non-empty list after a TOOL_API decision
ApiListRenderedAsCsv ==
    (RuleComposed /\ last_decision.decision = "TOOL_API" /\ tool_result.kind = "list"
        /\ Len(tool_result.items) > 0)
        => TraceNamesCsv(final)

(***************************************************************************)
(* Properties of the normalized header                                     *)
(***************************************************************************)

\* C39: normalization yields unique canonical column names for every header: the
\* renamings never give two columns named sku or two named name, also when the table
\* already has a sku or name column, and the parsed table is not lost.
C39_UniqueCanonicalColumns ==
    csv_actor.status \in { "normalized", "raised" }
        => /\ ~HasDuplicates(csv_actor.columns)
           /\ csv_actor.status = "normalized"

\* headers whose cleaned and renamed names are all different are normalized, with
\* different names
UniqueWhenNoNameCollides ==
    csv_actor.status = "normalized" => ~HasDuplicates(csv_actor.columns)

(***************************************************************************)
(* Properties of the api counter                                           *)
(***************************************************************************)

\* neither generation backend is configured: no token for the one, no client for the other
NoBackend == ~cfg.client /\ ~(cfg.USE_HF_MODEL /\ cfg.HUGGINGFACE_API_TOKEN)

\* the tools the rule-based decision selects over the queries and hit lists of the model
RuleBasedTools == { RuleBasedDecision(q, h).decision : q \in Queries, h \in HitLists }

\* C40: the rule-based decision returns only KB, TOOL_CSV or TOOL_WEB, never TOOL_API;
\* hence with both generation backends unavailable the api usage counter stays 0 after
\* any sequence of queries.
C40_RuleBasedNeverSelectsApi ==
    /\ RuleBasedTools \subseteq { "KB", "TOOL_CSV", "TOOL_WEB" }
    /\ RuleBasedDecided => decision.decision \in { "KB", "TOOL_CSV", "TOOL_WEB" }
    /\ NoBackend
          => /\ tool_usage_count.api = 0
             /\ pc \in { "tool", "final", "done" } => decision.decision # "TOOL_API"

\* two queries answered with no backend: one catalog lookup, no api call
C40_Witness ==
    /\ NoBackend
    /\ pc = "done"
    /\ Len(invocations) = 2
    /\ returned.calls = 2
    /\ tool_usage_count.csv = 1
    /\ tool_usage_count.api = 0
    /\ decision.decision = "KB"

====
